---- MODULE Spec2Model ----
(***************************************************************************)
(* Model of frontend/src/utils/currencyFormatter.ts: the three profile     *)
(* tables, formatCurrency and getCurrencySymbol.                           *)
(*                                                                         *)
(* Strings are sequences of one-character strings, so that prefixes,       *)
(* substrings and digit counts of an output can be examined.  A number is  *)
(* the exact value of an IEEE-754 binary64: sign, integer digits and the   *)
(* (always finite) decimal expansion of its fraction.                      *)
(***************************************************************************)
EXTENDS Integers, Sequences, FiniteSets

VARIABLES literal, amount, currency, formatted, symbolOf, tables, callers,
          platform, user, localeFormatted, hookFormatted,
          localStorage, goalsCard, savingsCard, retirementCard,
          app, transfersEnabled, summary, transfersCard, apiItems,
          monthSummary, spendingChart,
          settingsPage, authRequest,
          summaryPage, monthsApi,
          uiPreferences, preferencesProvider

\* one caller of the two functions: its arguments and what its calls returned
formatterVars == <<literal, amount, currency, formatted, symbolOf>>

\* the locale-aware formatter and the hook useCurrency
localeVars == <<platform, user, localeFormatted, hookFormatted>>

\* the cards with edit forms, and the browser's localStorage
cardVars == <<localStorage, goalsCard, savingsCard, retirementCard>>

\* the two formatters and their callers
formatSideVars == <<formatterVars, tables, callers, localeVars>>

\* the components of the user interface
\* the Dashboard page with its TransfersCard, and the preference of Settings
dashboardVars == <<app, transfersEnabled, summary, transfersCard, apiItems>>

\* the Summary page
summaryVars == <<monthSummary, spendingChart>>

\* the password form of the Settings page and its request
settingsVars == <<settingsPage, authRequest>>

\* the pages modelled on their own
\* the Summary page with its requests
loadsVars == <<summaryPage, monthsApi>>

\* the provider of the UI preferences and its localStorage entry
prefsVars == <<uiPreferences, preferencesProvider>>

pagesVars == <<settingsVars, loadsVars, prefsVars>>

uiVars == <<cardVars, dashboardVars, summaryVars, pagesVars>>

vars == <<formatSideVars, uiVars>>

(***************************************************************************)
(* Bounds of the model.                                                    *)
(***************************************************************************)
\* the amounts k/8, 0 <= k <= MaxEighths, of either sign, are formatted
MaxEighths == 80

\* the number of callers whose calls follow one another in any order
MaxCallers == 2

\* the savings goals and the breakdown items a list holds at most
MaxGoals == 2

(***************************************************************************)
(* ECMAScript values.                                                      *)
(***************************************************************************)
Undefined == [type |-> "undefined", chars |-> <<>>, num |-> 0]

Str(cs) == [type |-> "string", chars |-> cs, num |-> 0]

Num(n) == [type |-> "number", chars |-> <<>>, num |-> n]

\* a built-in function object, by its name
Fn(name) == [type |-> "function", chars |-> name, num |-> 0]

\* the object Object.prototype
ObjectPrototype == [type |-> "object", chars |-> <<>>, num |-> 0]

\* an abrupt completion: the call throws an error of this name
Throw(name) == [type |-> "throw", chars |-> name, num |-> 0]

\* the call has not been made
NotCalled == [type |-> "none", chars |-> <<>>, num |-> 0]

BEFORE == <<"b", "e", "f", "o", "r", "e">>

AFTER == <<"a", "f", "t", "e", "r">>

(***************************************************************************)
(* The profile tables, currencyFormatter.ts lines 1-44.                    *)
(***************************************************************************)
CURRENCY_SYMBOLS ==
  [ USD |-> <<"$">>,
    EUR |-> <<"€">>,
    GBP |-> <<"£">>,
    JPY |-> <<"¥">>,
    CAD |-> <<"C", "$">>,
    AUD |-> <<"A", "$">>,
    CHF |-> <<"C", "H", "F">>,
    CNY |-> <<"¥">>,
    INR |-> <<"₹">>,
    MXN |-> <<"$">>,
    BRL |-> <<"R", "$">>,
    ZAR |-> <<"R">> ]

CURRENCY_POSITIONS ==
  [ USD |-> BEFORE,
    EUR |-> AFTER,
    GBP |-> BEFORE,
    JPY |-> BEFORE,
    CAD |-> BEFORE,
    AUD |-> BEFORE,
    CHF |-> AFTER,
    CNY |-> BEFORE,
    INR |-> BEFORE,
    MXN |-> BEFORE,
    BRL |-> BEFORE,
    ZAR |-> BEFORE ]

DECIMAL_PLACES ==
  [ USD |-> 2,
    EUR |-> 2,
    GBP |-> 2,
    JPY |-> 0,
    CAD |-> 2,
    AUD |-> 2,
    CHF |-> 2,
    CNY |-> 2,
    INR |-> 2,
    MXN |-> 2,
    BRL |-> 2,
    ZAR |-> 2 ]

(***************************************************************************)
(* table[key] on an object literal: the object's own property, else the    *)
(* property it inherits from Object.prototype, else undefined.             *)
(***************************************************************************)
\* properties every object literal inherits (those the model draws keys from)
ObjectPrototypeFunctions ==
  [ constructor    |-> <<"O", "b", "j", "e", "c", "t">>,
    toString       |-> <<"t", "o", "S", "t", "r", "i", "n", "g">>,
    valueOf        |-> <<"v", "a", "l", "u", "e", "O", "f">>,
    hasOwnProperty |-> <<"h", "a", "s", "O", "w", "n", "P", "r", "o", "p", "e", "r", "t", "y">> ]

InheritedKeys == DOMAIN ObjectPrototypeFunctions \cup {"__proto__"}

Inherited(key) ==
  IF key = "__proto__" THEN ObjectPrototype
  ELSE IF key \in DOMAIN ObjectPrototypeFunctions THEN Fn(ObjectPrototypeFunctions[key])
  ELSE Undefined

\* the three module-level objects as the module's evaluation leaves them; they
\* are the state every call reads
ModuleTables ==
  [ symbols   |-> CURRENCY_SYMBOLS,
    positions |-> CURRENCY_POSITIONS,
    decimals  |-> DECIMAL_PLACES ]

GetSymbol(key) ==
  IF key \in DOMAIN tables.symbols THEN Str(tables.symbols[key]) ELSE Inherited(key)

GetPosition(key) ==
  IF key \in DOMAIN tables.positions THEN Str(tables.positions[key]) ELSE Inherited(key)

GetDecimals(key) ==
  IF key \in DOMAIN tables.decimals THEN Num(tables.decimals[key]) ELSE Inherited(key)

(***************************************************************************)
(* ECMAScript operators used by the two functions.                         *)
(***************************************************************************)
\* ToBoolean
Truthy(v) ==
  CASE v.type = "undefined" -> FALSE
    [] v.type = "string"    -> v.chars # <<>>
    [] v.type = "number"    -> v.num # 0
    [] OTHER                -> TRUE

\* a || b
Or(a, b) == IF Truthy(a) THEN a ELSE b

\* a ?? b
Coalesce(a, b) == IF a.type = "undefined" THEN b ELSE a

DigitChars == <<"0", "1", "2", "3", "4", "5", "6", "7", "8", "9">>

DigitChar(d) == DigitChars[d + 1]

\* the characters of a sequence of digits
DigitString(ds) == [i \in 1..Len(ds) |-> DigitChar(ds[i])]

\* the digits of a natural number, most significant first
RECURSIVE NatDigits(_)
NatDigits(n) == IF n < 10 THEN <<n>> ELSE Append(NatDigits(n \div 10), n % 10)

Zeros(n) == [i \in 1..n |-> 0]

\* ToString of a value that is not a number
ToString(v) ==
  CASE v.type = "string"    -> v.chars
    [] v.type = "function"  ->
         <<"f", "u", "n", "c", "t", "i", "o", "n", " ">> \o v.chars
           \o <<"(", ")", " ", "{", " ", "[", "n", "a", "t", "i", "v", "e", " ",
                "c", "o", "d", "e", "]", " ", "}">>
    [] v.type = "object"    ->
         <<"[", "o", "b", "j", "e", "c", "t", " ", "O", "b", "j", "e", "c", "t", "]">>
    [] v.type = "undefined" -> <<"u", "n", "d", "e", "f", "i", "n", "e", "d">>
    [] v.type = "number"    -> DigitString(NatDigits(v.num))

\* ToIntegerOrInfinity(ToNumber(v)): a function or an object converts to the
\* string above, that to NaN, and NaN to 0; undefined converts to NaN, so to 0
ToIntegerOrInfinity(v) == IF v.type = "number" THEN v.num ELSE 0

(***************************************************************************)
(* Numbers.  A finite number is [kind, neg, int, frac, shortest]: int are  *)
(* the digits of its integer part (<<0>> when that is zero, no leading     *)
(* zero otherwise), frac the digits of its fraction (no trailing zero),    *)
(* shortest the digits of the shortest decimal that reads back as the same *)
(* binary64 (the digit string s of Number::toString).                      *)
(***************************************************************************)
RECURSIVE StripLeadingZeros(_)
StripLeadingZeros(ds) ==
  IF Len(ds) > 1 /\ Head(ds) = 0 THEN StripLeadingZeros(Tail(ds)) ELSE ds

RECURSIVE StripTrailingZeros(_)
StripTrailingZeros(ds) ==
  IF Len(ds) > 1 /\ ds[Len(ds)] = 0
  THEN StripTrailingZeros(SubSeq(ds, 1, Len(ds) - 1))
  ELSE ds

\* the significant digits of the decimal int.frac
Significand(int, frac) == StripTrailingZeros(StripLeadingZeros(int \o frac))

Finite(neg, int, frac, shortest) ==
  [kind |-> "finite", neg |-> neg, int |-> int, frac |-> frac, shortest |-> shortest]

NaN == [kind |-> "nan", neg |-> FALSE, int |-> <<0>>, frac |-> <<>>, shortest |-> <<0>>]

Infinity(neg) ==
  [kind |-> "inf", neg |-> neg, int |-> <<0>>, frac |-> <<>>, shortest |-> <<0>>]

IsFinite(x) == x.kind = "finite"

IsZero(x) == x.kind = "finite" /\ x.int = <<0>> /\ x.frac = <<>>

\* Math.abs(x)
MathAbs(x) == IF x.kind = "nan" THEN x ELSE [x EXCEPT !.neg = FALSE]

\* x < 0: false for NaN, +0 and -0
LessThanZero(x) == x.kind # "nan" /\ x.neg /\ ~IsZero(x)

\* n of Number::toString: 10^(n-1) <= x < 10^n
RECURSIVE LeadingZeros(_)
LeadingZeros(ds) ==
  IF ds # <<>> /\ Head(ds) = 0 THEN 1 + LeadingZeros(Tail(ds)) ELSE 0

DecimalExponent(x) == IF x.int # <<0>> THEN Len(x.int) ELSE 0 - LeadingZeros(x.frac)

\* Number::toString(x), radix 10
NumberToString(x) ==
  LET s    == DigitString(x.shortest)
      k    == Len(s)
      n    == DecimalExponent(x)
      e    == IF n - 1 < 0 THEN 1 - n ELSE n - 1
      exp  == <<"e", IF n - 1 < 0 THEN "-" ELSE "+">> \o DigitString(NatDigits(e))
      sign == IF x.neg THEN <<"-">> ELSE <<>>
  IN  CASE x.kind = "nan" -> <<"N", "a", "N">>
        [] x.kind = "inf" -> sign \o <<"I", "n", "f", "i", "n", "i", "t", "y">>
        [] IsZero(x)      -> <<"0">>
        [] OTHER ->
             sign \o
             ( IF k <= n /\ n <= 21 THEN s \o DigitString(Zeros(n - k))
               ELSE IF 0 < n /\ n <= 21 THEN SubSeq(s, 1, n) \o <<".">> \o SubSeq(s, n + 1, k)
               ELSE IF 0 - 6 < n /\ n <= 0 THEN <<"0", ".">> \o DigitString(Zeros(0 - n)) \o s
               ELSE IF k = 1 THEN s \o exp
               ELSE <<s[1], ".">> \o SubSeq(s, 2, k) \o exp )

\* ds + 1 on a digit sequence
RECURSIVE Increment(_)
Increment(ds) ==
  IF ds = <<>> THEN <<1>>
  ELSE IF ds[Len(ds)] < 9 THEN [ds EXCEPT ![Len(ds)] = @ + 1]
  ELSE Append(Increment(SubSeq(ds, 1, Len(ds) - 1)), 0)

\* variant: the digits beyond the f-th are cut off instead of rounded
RoundedDigits_Floor(x, f) ==
  StripLeadingZeros(x.int \o SubSeq(x.frac \o Zeros(f), 1, f))

\* the integer n for which n / 10^f - x is as close to zero as possible, the
\* larger n if there are two: its digits.  x >= 0.
RoundedDigits(x, f) ==
  LET padded == x.frac \o Zeros(f + 1)
      kept   == x.int \o SubSeq(padded, 1, f)
  IN  StripLeadingZeros(IF padded[f + 1] >= 5 THEN Increment(kept) ELSE kept)

\* x >= 10^21
AtLeast1e21(x) == Len(x.int) >= 22

\* Number.prototype.toFixed(fractionDigits) on the number x: a string value, or
\* a RangeError
ToFixed(x, fractionDigits) ==
  LET f == ToIntegerOrInfinity(fractionDigits)
      y == [x EXCEPT !.neg = FALSE]
      s == IF x.neg /\ ~IsZero(x) THEN <<"-">> ELSE <<>>
      n == DigitString(RoundedDigits(y, f))
      m == IF Len(n) <= f THEN DigitString(Zeros(f + 1 - Len(n))) \o n ELSE n
      k == Len(m)
  IN  IF f < 0 \/ f > 100 THEN Throw(<<"R", "a", "n", "g", "e", "E", "r", "r", "o", "r">>)
      ELSE IF ~IsFinite(x) THEN Str(NumberToString(x))
      ELSE IF AtLeast1e21(y) THEN Str(s \o NumberToString(y))
      ELSE IF f = 0 THEN Str(s \o n)
      ELSE Str(s \o SubSeq(m, 1, k - f) \o <<".">> \o SubSeq(m, k - f + 1, k))

(***************************************************************************)
(* The amounts a caller passes.  A caller writes a decimal literal         *)
(* [kind, neg, int, frac]; the program receives the binary64 nearest to    *)
(* it.                                                                     *)
(***************************************************************************)
Literal(neg, int, frac) == [kind |-> "finite", neg |-> neg, int |-> int, frac |-> frac]

Three == Literal(FALSE, <<3>>, <<>>)

\* the decimal expansions of 0/8 .. 7/8
EighthFractions ==
  << <<>>, <<1, 2, 5>>, <<2, 5>>, <<3, 7, 5>>, <<5>>, <<6, 2, 5>>, <<7, 5>>, <<8, 7, 5>> >>

\* the literal of k/8, which is a binary64
Eighth(neg, k) == Literal(neg, NatDigits(k \div 8), EighthFractions[(k % 8) + 1])

\* literals that are no binary64, with the exact value of the nearest binary64
InexactLiterals ==
  <<
    [ int |-> <<1>>, frac |-> <<0, 0, 5>>,
      exactInt |-> <<1>>,
      exactFrac |-> <<0, 0, 4, 9, 9, 9, 9, 9, 9, 9, 9, 9, 9, 9, 9, 8, 9, 3, 4, 1, 8, 5, 8, 9,
                     6, 3, 5, 9, 8, 4, 9, 7, 2, 1, 1, 9, 3, 3, 1, 3, 5, 9, 8, 6, 3, 2, 8, 1,
                     2, 5>> ],
    [ int |-> <<2>>, frac |-> <<6, 7, 5>>,
      exactInt |-> <<2>>,
      exactFrac |-> <<6, 7, 4, 9, 9, 9, 9, 9, 9, 9, 9, 9, 9, 9, 9, 8, 2, 2, 3, 6, 4, 3, 1, 6,
                     0, 5, 9, 9, 7, 4, 9, 5, 3, 5, 3, 2, 2, 1, 8, 9, 3, 3, 1, 0, 5, 4, 6, 8,
                     7, 5>> ],
    [ int |-> <<8>>, frac |-> <<3, 4, 5>>,
      exactInt |-> <<8>>,
      exactFrac |-> <<3, 4, 5, 0, 0, 0, 0, 0, 0, 0, 0, 0, 0, 0, 0, 6, 3, 9, 4, 8, 8, 4, 6, 2,
                     1, 8, 4, 0, 9, 0, 1, 6, 7, 2, 8, 4, 0, 1, 1, 8, 4, 0, 8, 2, 0, 3, 1, 2,
                     5>> ],
    [ int |-> <<0>>, frac |-> <<0, 0, 1>>,
      exactInt |-> <<0>>,
      exactFrac |-> <<0, 0, 1, 0, 0, 0, 0, 0, 0, 0, 0, 0, 0, 0, 0, 0, 0, 0, 0, 2, 0, 8, 1, 6,
                     6, 8, 1, 7, 1, 1, 7, 2, 1, 6, 8, 5, 1, 3, 2, 9, 4, 3, 0, 9, 3, 7, 7, 6,
                     7, 0, 2, 8, 8, 0, 8, 5, 9, 3, 7, 5>> ],
    [ int |-> <<9>>, frac |-> <<9, 9, 5>>,
      exactInt |-> <<9>>,
      exactFrac |-> <<9, 9, 4, 9, 9, 9, 9, 9, 9, 9, 9, 9, 9, 9, 9, 2, 1, 8, 4, 0, 2, 9, 9, 0,
                     6, 6, 3, 8, 8, 9, 7, 9, 5, 5, 4, 1, 7, 6, 3, 3, 0, 5, 6, 6, 4, 0, 6, 2,
                     5>> ]
  >>

\* 1234567.5
Millions == Literal(FALSE, <<1, 2, 3, 4, 5, 6, 7>>, <<5>>)

\* 9.998046875 = 9 + 511/512, a binary64
Carry == Literal(FALSE, <<9>>, <<9, 9, 8, 0, 4, 6, 8, 7, 5>>)

\* 1e21 = 2^21 * 5^21, a binary64
Literal1e21 == Literal(FALSE, <<1>> \o Zeros(21), <<>>)

\* 1.5e21 = 15 * 2^20 * 5^20, a binary64
Literal15e20 == Literal(FALSE, <<1, 5>> \o Zeros(20), <<>>)

\* 999999999999999868928 = 1e21 - 2^17, the largest binary64 below 1e21
LiteralBelow1e21 ==
  Literal(FALSE, <<9, 9, 9, 9, 9, 9, 9, 9, 9, 9, 9, 9, 9, 9, 9, 8, 6, 8, 9, 2, 8>>, <<>>)

Magnitudes ==
  {Eighth(FALSE, k) : k \in 0..MaxEighths}
    \cup {Literal(FALSE, InexactLiterals[i].int, InexactLiterals[i].frac) :
            i \in 1..Len(InexactLiterals)}
    \cup {Millions, Carry, Literal1e21, Literal15e20, LiteralBelow1e21}

Literals ==
  {[m EXCEPT !.neg = neg] : m \in Magnitudes, neg \in BOOLEAN}
    \cup { [kind |-> "nan", neg |-> FALSE, int |-> <<0>>, frac |-> <<>>],
           [kind |-> "inf", neg |-> FALSE, int |-> <<0>>, frac |-> <<>>],
           [kind |-> "inf", neg |-> TRUE, int |-> <<0>>, frac |-> <<>>] }

\* the digit string s of Number::toString for the binary64 nearest to a literal:
\* the literal's own significant digits when it has at most 15 of them
ShortestDigits(lit) ==
  IF lit = LiteralBelow1e21 \/ lit = [LiteralBelow1e21 EXCEPT !.neg = TRUE]
  THEN <<9, 9, 9, 9, 9, 9, 9, 9, 9, 9, 9, 9, 9, 9, 9, 9>>
  ELSE Significand(lit.int, lit.frac)

\* the number a literal evaluates to
Binary64(lit) ==
  LET hit == {i \in 1..Len(InexactLiterals) :
                InexactLiterals[i].int = lit.int /\ InexactLiterals[i].frac = lit.frac}
      e   == InexactLiterals[CHOOSE i \in hit : TRUE]
  IN  CASE lit.kind = "nan" -> NaN
        [] lit.kind = "inf" -> Infinity(lit.neg)
        [] hit # {} -> Finite(lit.neg, e.exactInt, e.exactFrac, ShortestDigits(lit))
        [] OTHER -> Finite(lit.neg, lit.int, lit.frac, ShortestDigits(lit))

(***************************************************************************)
(* The currency argument: [given, key]; given is FALSE when the caller     *)
(* passes no argument (or undefined).                                      *)
(***************************************************************************)
Given(key) == [given |-> TRUE, key |-> key]

NotGiven == [given |-> FALSE, key |-> ""]

UnknownKeys == {"ZZZ", "", "usd"}

CurrencyArguments ==
  {Given(k) : k \in DOMAIN CURRENCY_SYMBOLS \cup UnknownKeys \cup InheritedKeys}
    \cup {NotGiven}

\* the default parameter value: currency: string = "USD"
DefaultCurrency(arg) == IF arg.given THEN arg.key ELSE "USD"

(***************************************************************************)
(* formatCurrency and getCurrencySymbol, currencyFormatter.ts lines 46-66. *)
(***************************************************************************)
\* variant: the profile is dereferenced without a fallback, as the locale-aware
\* formatter does (SUPPORTED_CURRENCIES[currency].symbol): a TypeError on undefined
symbol_NoFallback(key) ==
  IF GetSymbol(key).type = "undefined"
  THEN Throw(<<"T", "y", "p", "e", "E", "r", "r", "o", "r">>)
  ELSE GetSymbol(key)

\* const symbol = CURRENCY_SYMBOLS[currency] || "$"
symbol(key) == Or(GetSymbol(key), Str(<<"$">>))

\* const position = CURRENCY_POSITIONS[currency] || "before"
position(key) == Or(GetPosition(key), Str(BEFORE))

\* variant: the fallback is taken with ||, as for the symbol and the position;
\* the 0 of JPY is falsy and gives way to 2
decimals_Or(key) == Or(GetDecimals(key), Num(2))

\* const decimals = DECIMAL_PLACES[currency] ?? 2
decimals(key) == Coalesce(GetDecimals(key), Num(2))

\* variant: the digits are taken from whole minor units held in a BigInt,
\* BigInt(Math.round(...)): a RangeError for an amount that is no integer
formattedAmount_BigInt(x, key) ==
  IF IsFinite(x) THEN ToFixed(MathAbs(x), decimals(key))
  ELSE Throw(<<"R", "a", "n", "g", "e", "E", "r", "r", "o", "r">>)

\* variant: Math.abs is forgotten, amount.toFixed(decimals)
formattedAmount_NoAbs(x, key) == ToFixed(x, decimals(key))

\* const formattedAmount = Math.abs(amount).toFixed(decimals)
formattedAmount(x, key) == ToFixed(MathAbs(x), decimals(key))

\* variant: the sign is decided on the truncated amount, Math.trunc(amount) < 0
isNegative_Truncated(x) ==
  IF LessThanZero(x) /\ (x.kind = "inf" \/ x.int # <<0>>) THEN <<"-">> ELSE <<>>

\* const isNegative = amount < 0 ? "-" : ""
isNegative(x) == IF LessThanZero(x) THEN <<"-">> ELSE <<>>

\* variant: the after layout without the separating space
Template_NoSpace(sign, sym, numeral, pos) ==
  IF pos = Str(BEFORE)
  THEN sign \o ToString(sym) \o numeral
  ELSE sign \o numeral \o ToString(sym)

\* variant: the after layout repeats the symbol in front
Template_SymbolTwice(sign, sym, numeral, pos) ==
  IF pos = Str(BEFORE)
  THEN sign \o ToString(sym) \o numeral
  ELSE sign \o ToString(sym) \o numeral \o <<" ">> \o ToString(sym)

\* the two template literals
Template(sign, sym, numeral, pos) ==
  IF pos = Str(BEFORE)
  THEN sign \o ToString(sym) \o numeral
  ELSE sign \o numeral \o <<" ">> \o ToString(sym)

\* a throw in any subexpression ends the call with that throw
formatCurrency(x, arg) ==
  LET key == DefaultCurrency(arg)
      sym == symbol(key)
      pos == position(key)
      fa  == formattedAmount(x, key)
  IN  IF sym.type = "throw" THEN sym
      ELSE IF pos.type = "throw" THEN pos
      ELSE IF fa.type = "throw" THEN fa
      ELSE Str(Template(isNegative(x), sym, fa.chars, pos))

getCurrencySymbol(arg) == symbol(DefaultCurrency(arg))

(***************************************************************************)
(* The callers: they choose arguments and call the two functions.          *)
(***************************************************************************)
\* what lies outside the single caller: left alone by its steps
beyondFormatter == <<tables, callers, localeVars, uiVars>>

\* the locale-aware formatter is not in use
LocaleIdle ==
  /\ platform = [symbolFirst |-> TRUE, narrowSymbol |-> TRUE, group |-> ","]
  /\ user = [present |-> FALSE, currency |-> [given |-> FALSE, key |-> ""]]
  /\ localeFormatted = NotCalled
  /\ hookFormatted = NotCalled

\* a component that is not on the screen
Unmounted == [mounted |-> FALSE]

\* no card is on the screen and nothing is stored
CardsIdle ==
  /\ localStorage = [customSavingsGoals |-> [kind |-> "absent", value |-> <<>>],
                     retirementBreakdown |-> [kind |-> "absent", value |-> <<>>]]
  /\ goalsCard = Unmounted
  /\ savingsCard = Unmounted
  /\ retirementCard = Unmounted

\* no component of the user interface is on the screen
\* the Dashboard page is not in use
DashboardIdle ==
  /\ app = [user |-> FALSE, showSettings |-> FALSE, showSummary |-> FALSE]
  /\ transfersEnabled = TRUE
  /\ summary = [is_closed |-> FALSE, items |-> <<>>]
  /\ transfersCard = Unmounted
  /\ apiItems = [calls |-> 0, last |-> "none"]

\* the Summary page is not in use
SummaryIdle ==
  /\ monthSummary = [loaded |-> FALSE, items |-> <<>>]
  /\ spendingChart = [rendered |-> FALSE, data |-> <<>>]

\* the password form of Settings is not in use
SettingsIdle ==
  /\ settingsPage = Unmounted
  /\ authRequest = [state |-> "none"]

\* none of the pages modelled on their own is in use
\* the requests of the Summary page are not in use
LoadsIdle ==
  /\ summaryPage = Unmounted
  /\ monthsApi = [current |-> 1, pending |-> <<>>]

\* the provider of the UI preferences is not in use
PrefsIdle ==
  /\ uiPreferences = [kind |-> "absent", value |-> <<>>]
  /\ preferencesProvider = Unmounted

PagesIdle == SettingsIdle /\ LoadsIdle /\ PrefsIdle

UiIdle == CardsIdle /\ DashboardIdle /\ SummaryIdle /\ PagesIdle

\* the several callers are absent
CallersIdle == callers = <<>>

Init ==
  /\ literal \in Literals
  /\ amount = Binary64(literal)
  /\ currency \in CurrencyArguments
  /\ formatted = NotCalled
  /\ symbolOf = NotCalled
  /\ tables = ModuleTables
  /\ CallersIdle
  /\ LocaleIdle
  /\ UiIdle

\* a caller prepares the amount of its next calls
NextAmount ==
  /\ \E lit \in Literals :
       /\ literal' = lit
       /\ amount' = Binary64(lit)
  /\ formatted' = NotCalled
  /\ symbolOf' = NotCalled
  /\ UNCHANGED <<currency, beyondFormatter>>

\* a caller prepares the currency code of its next calls
NextCurrency ==
  /\ currency' \in CurrencyArguments
  /\ formatted' = NotCalled
  /\ symbolOf' = NotCalled
  /\ UNCHANGED <<literal, amount, beyondFormatter>>

CallFormatCurrency ==
  /\ formatted' = formatCurrency(amount, currency)
  /\ UNCHANGED <<literal, amount, currency, symbolOf, beyondFormatter>>

CallGetCurrencySymbol ==
  /\ symbolOf' = getCurrencySymbol(currency)
  /\ UNCHANGED <<literal, amount, currency, formatted, beyondFormatter>>

Next == NextAmount \/ NextCurrency \/ CallFormatCurrency \/ CallGetCurrencySymbol

Spec == Init /\ [][Next]_vars

(***************************************************************************)
(* Several callers (components rendering amounts) call the two functions   *)
(* in any order.  Both functions are synchronous, so a call runs to its    *)
(* end before the next one starts; all calls read the same three tables.   *)
(***************************************************************************)
Callers == 1..MaxCallers

CallerLiterals == {Three, Eighth(TRUE, 4)}

CallerCurrencies == {Given("EUR"), Given("JPY"), Given("constructor"), NotGiven}

\* the single caller is absent
FormatterIdle ==
  /\ literal = Three
  /\ amount = Binary64(Three)
  /\ currency = NotGiven
  /\ formatted = NotCalled
  /\ symbolOf = NotCalled

NoCall(lit, cur) ==
  [literal |-> lit, currency |-> cur, formatted |-> NotCalled, symbolOf |-> NotCalled]

InitCallers ==
  /\ tables = ModuleTables
  /\ callers \in [Callers -> {NoCall(lit, cur) : lit \in CallerLiterals, cur \in CallerCurrencies}]
  /\ FormatterIdle
  /\ LocaleIdle
  /\ UiIdle

\* caller c prepares the arguments of its next calls
CallerArguments(c) ==
  /\ \E lit \in CallerLiterals, cur \in CallerCurrencies :
       callers' = [callers EXCEPT ![c] = NoCall(lit, cur)]
  /\ UNCHANGED <<tables, formatterVars, localeVars, uiVars>>

\* variant: formatCurrency stores the symbol it resolved in the table,
\* CURRENCY_SYMBOLS[currency] = symbol
CallerFormatCurrency_Storing(c) ==
  LET key == DefaultCurrency(callers[c].currency)
  IN  /\ callers' = [callers EXCEPT ![c].formatted =
                       formatCurrency(Binary64(callers[c].literal), callers[c].currency)]
      /\ tables' = [tables EXCEPT !.symbols =
                      [k \in DOMAIN tables.symbols \cup {key} |-> ToString(symbol(key))]]
      /\ UNCHANGED <<formatterVars, localeVars, uiVars>>

\* caller c calls formatCurrency: lines 46-62 read the tables and assign only
\* to their own constants
CallerFormatCurrency(c) ==
  /\ callers' = [callers EXCEPT ![c].formatted =
                   formatCurrency(Binary64(callers[c].literal), callers[c].currency)]
  /\ UNCHANGED <<tables, formatterVars, localeVars, uiVars>>

\* caller c calls getCurrencySymbol: lines 64-66 read one table
CallerGetCurrencySymbol(c) ==
  /\ callers' = [callers EXCEPT ![c].symbolOf = getCurrencySymbol(callers[c].currency)]
  /\ UNCHANGED <<tables, formatterVars, localeVars, uiVars>>

NextCallers ==
  \E c \in Callers :
    CallerArguments(c) \/ CallerFormatCurrency(c) \/ CallerGetCurrencySymbol(c)

SpecCallers == InitCallers /\ [][NextCallers]_vars

(***************************************************************************)
(* The locale-aware formatter, lib/currency (part_000), and the hook       *)
(* useCurrency (part_004 lines 58-68) that components format with.         *)
(***************************************************************************)
\* the records of SUPPORTED_CURRENCIES, without the name no code reads
SUPPORTED_CURRENCIES ==
  [ USD |-> [symbol |-> <<"$">>, locale |-> "en-US"],
    EUR |-> [symbol |-> <<"€">>, locale |-> "en-EU"],
    GBP |-> [symbol |-> <<"£">>, locale |-> "en-GB"],
    JPY |-> [symbol |-> <<"¥">>, locale |-> "ja-JP"],
    CAD |-> [symbol |-> <<"C", "$">>, locale |-> "en-CA"],
    AUD |-> [symbol |-> <<"A", "$">>, locale |-> "en-AU"],
    CHF |-> [symbol |-> <<"C", "H", "F">>, locale |-> "de-CH"],
    CNY |-> [symbol |-> <<"¥">>, locale |-> "zh-CN"],
    INR |-> [symbol |-> <<"₹">>, locale |-> "en-IN"] ]

\* the keys of SUPPORTED_CURRENCIES as text
CodeChars ==
  [ USD |-> <<"U", "S", "D">>, EUR |-> <<"E", "U", "R">>, GBP |-> <<"G", "B", "P">>,
    JPY |-> <<"J", "P", "Y">>, CAD |-> <<"C", "A", "D">>, AUD |-> <<"A", "U", "D">>,
    CHF |-> <<"C", "H", "F">>, CNY |-> <<"C", "N", "Y">>, INR |-> <<"I", "N", "R">> ]

\* minimumFractionDigits: 2, maximumFractionDigits: 2
IntlFractionDigits == 2

\* what the host's locale data decides and the options do not: whether the
\* currency stands in front, whether it is shown as a symbol or as its code, and
\* the character between groups of three integer digits
Platforms ==
  [symbolFirst : BOOLEAN, narrowSymbol : BOOLEAN, group : {",", "'"}]

\* characters beyond the module's alphabet, by their code points
NoBreakSpace == <<"U+00A0">>

\* the integer digits in groups of three
RECURSIVE Grouped(_, _)
Grouped(ds, g) ==
  IF Len(ds) <= 3 THEN DigitString(ds)
  ELSE Grouped(SubSeq(ds, 1, Len(ds) - 3), g) \o <<g>> \o DigitString(SubSeq(ds, Len(ds) - 2, Len(ds)))

\* variant: the fraction digits are those of the currency, as the table formatter has them
IntlNumeral_CurrencyDigits(pf, x, key) ==
  LET f == DECIMAL_PLACES[key]
      n == RoundedDigits(MathAbs(x), f)
      m == IF Len(n) <= f THEN Zeros(f + 1 - Len(n)) \o n ELSE n
      k == Len(m)
  IN  CASE x.kind = "nan" -> <<"N", "a", "N">>
        [] x.kind = "inf" -> <<"U+221E">>
        [] OTHER -> Grouped(SubSeq(m, 1, k - f), pf.group)
                      \o (IF f = 0 THEN <<>> ELSE <<".">> \o DigitString(SubSeq(m, k - f + 1, k)))

\* the numeral Intl.NumberFormat gives the magnitude of x under the options
IntlNumeral(pf, x, key) ==
  LET f == IntlFractionDigits
      n == RoundedDigits(MathAbs(x), f)
      m == IF Len(n) <= f THEN Zeros(f + 1 - Len(n)) \o n ELSE n
      k == Len(m)
  IN  CASE x.kind = "nan" -> <<"N", "a", "N">>
        [] x.kind = "inf" -> <<"U+221E">>
        [] OTHER -> Grouped(SubSeq(m, 1, k - f), pf.group)
                      \o <<".">> \o DigitString(SubSeq(m, k - f + 1, k))

\* new Intl.NumberFormat(locale, {style: "currency", currency, ...}).format(x)
\* on the host pf; the sign of a negative number, of -0 too, comes first
IntlFormat(pf, x, key) ==
  LET sign    == IF x.kind # "nan" /\ x.neg THEN <<"-">> ELSE <<>>
      display == IF pf.narrowSymbol THEN SUPPORTED_CURRENCIES[key].symbol ELSE CodeChars[key]
      gap     == IF pf.narrowSymbol THEN <<>> ELSE NoBreakSpace
  IN  IF pf.symbolFirst
      THEN sign \o display \o gap \o IntlNumeral(pf, x, key)
      ELSE sign \o IntlNumeral(pf, x, key) \o NoBreakSpace \o display

\* formatCurrency of lib/currency with showSymbol left at its default true:
\* currencyInfo.locale throws a TypeError when the key has no record, and
\* Intl.NumberFormat a RangeError for a currency that is no three-letter code
LocaleFormatCurrency(pf, x, arg) ==
  LET key == DefaultCurrency(arg)
  IN  IF key \in DOMAIN SUPPORTED_CURRENCIES THEN Str(IntlFormat(pf, x, key))
      ELSE IF Inherited(key).type = "undefined"
           THEN Throw(<<"T", "y", "p", "e", "E", "r", "r", "o", "r">>)
           ELSE Throw(<<"R", "a", "n", "g", "e", "E", "r", "r", "o", "r">>)

\* the user of the auth context: absent (null), or with a currency field that
\* is undefined or a string
NoUser == [present |-> FALSE, currency |-> NotGiven]

UserWith(cur) == [present |-> TRUE, currency |-> cur]

\* codes the registration form offers (getCurrencyList maps every currency
\* of @dinero.js/currencies): the nine supported ones and some of the others
RegistrationCodes == DOMAIN SUPPORTED_CURRENCIES \cup {"MXN", "SEK"}

Users ==
  {NoUser, UserWith(NotGiven), UserWith(Given(""))}
    \cup {UserWith(Given(code)) : code \in RegistrationCodes}

\* const currency = (user?.currency as Currency) || "USD"
HookCurrency(u) ==
  IF ~u.present \/ ~u.currency.given \/ u.currency.key = "" THEN "USD" ELSE u.currency.key

\* useCurrency().format(amount)
HookFormat(pf, u, x) == LocaleFormatCurrency(pf, x, Given(HookCurrency(u)))

LocaleLiterals ==
  { Eighth(FALSE, 80), Eighth(FALSE, 4), Eighth(TRUE, 7), Millions, Literal1e21,
    [kind |-> "nan", neg |-> FALSE, int |-> <<0>>, frac |-> <<>>] }

LocaleCurrencies ==
  {Given(code) : code \in {"USD", "EUR", "JPY", "CHF", "MXN"}} \cup {NotGiven}

InitLocale ==
  /\ platform \in Platforms
  /\ literal \in LocaleLiterals
  /\ amount = Binary64(literal)
  /\ currency \in LocaleCurrencies
  /\ user \in Users
  /\ formatted = NotCalled
  /\ symbolOf = NotCalled
  /\ localeFormatted = NotCalled
  /\ hookFormatted = NotCalled
  /\ tables = ModuleTables
  /\ CallersIdle
  /\ UiIdle

\* a component gets another amount or currency to show
LocaleArguments ==
  /\ \E lit \in LocaleLiterals :
       /\ literal' = lit
       /\ amount' = Binary64(lit)
  /\ currency' \in LocaleCurrencies
  /\ formatted' = NotCalled
  /\ localeFormatted' = NotCalled
  /\ hookFormatted' = NotCalled
  /\ UNCHANGED <<symbolOf, tables, callers, platform, user, uiVars>>

\* another user logs in, or none
LogIn ==
  /\ user' \in Users
  /\ hookFormatted' = NotCalled
  /\ UNCHANGED <<formatterVars, tables, callers, platform, localeFormatted, uiVars>>

CallLocaleFormatCurrency ==
  /\ localeFormatted' = LocaleFormatCurrency(platform, amount, currency)
  /\ UNCHANGED <<formatterVars, tables, callers, platform, user, hookFormatted, uiVars>>

CallHookFormat ==
  /\ hookFormatted' = HookFormat(platform, user, amount)
  /\ UNCHANGED <<formatterVars, tables, callers, platform, user, localeFormatted, uiVars>>

\* the table formatter is called on the same arguments
CallTableFormatCurrency ==
  /\ formatted' = formatCurrency(amount, currency)
  /\ UNCHANGED <<literal, amount, currency, symbolOf, tables, callers, localeVars, uiVars>>

NextLocale ==
  \/ LocaleArguments
  \/ LogIn
  \/ CallLocaleFormatCurrency
  \/ CallHookFormat
  \/ CallTableFormatCurrency

SpecLocale == InitLocale /\ [][NextLocale]_vars

(***************************************************************************)
(* The cards with edit forms: CustomSavingsGoals, SavingsCard and          *)
(* RetirementBreakdownCard.  A number is finite (an integer here), NaN or  *)
(* Infinity; null is what JSON makes of the latter two.  A text field of   *)
(* type number hands its handler the empty text or a numeric literal.      *)
(***************************************************************************)
\* what lies outside the cards: left alone by their steps
beyondCards == <<formatSideVars, dashboardVars, summaryVars, pagesVars>>

Fin(n) == [kind |-> "finite", n |-> n]

\* NaN, Infinity, the null of JSON, and the absence of a value
Special ==
  [ NaN      |-> [kind |-> "nan", n |-> 0],
    Infinity |-> [kind |-> "inf", n |-> 1],
    null     |-> [kind |-> "null", n |-> 0],
    none     |-> [kind |-> "none", n |-> 0] ]

\* parseFloat on the texts of the model; 1e999 is beyond the largest binary64
parseFloat(text) ==
  CASE text = "0" -> Fin(0)
    [] text = "12" -> Fin(12)
    [] text = "-3" -> Fin(0 - 3)
    [] text \in {"1e999", "Infinity"} -> Special.Infinity
    [] OTHER -> Special.NaN

\* Number.prototype.toString on the numbers of the model
NumberText(x) ==
  CASE x = Fin(0) -> "0"
    [] x = Fin(12) -> "12"
    [] x = Fin(0 - 3) -> "-3"
    [] x.kind = "inf" -> "Infinity"
    [] OTHER -> "NaN"

NumberInputTexts == {"", "12", "-3", "1e999"}

\* String.prototype.trim on the names of the model
trim(name) == IF name = " " THEN "" ELSE name

\* JSON.stringify writes null for NaN and the infinities; JSON.parse gives the
\* written value back.  Applied to the number fields of each list element.
JSONStringify(list, fields) ==
  [ i \in 1..Len(list) |->
      [ f \in DOMAIN list[i] |->
          IF f \in fields /\ list[i][f].kind \in {"nan", "inf"} THEN Special.null ELSE list[i][f] ] ]

\* what localStorage holds under a key: nothing, text that is no JSON, or JSON
Stored(kind, value) == [kind |-> kind, value |-> value]

\* getItem and JSON.parse in a try: the stored list, [] when absent or invalid
Loaded(entry) == IF entry.kind = "json" THEN entry.value ELSE <<>>

\* the state of CustomSavingsGoals after its first render with these goals
GoalsMounted(goals) ==
  [ mounted |-> TRUE, goals |-> goals, isAddingNew |-> FALSE, newGoalName |-> "",
    newGoalTarget |-> "", editingGoalId |-> 0, editCurrentAmount |-> "" ]

\* JSON.stringify(goals)
GoalsJson(goals) == Stored("json", JSONStringify(goals, {"currentAmount", "targetAmount"}))

\* the effect of lines 39-42 after a render with these goals
GoalsSaved(goals) == [localStorage EXCEPT !.customSavingsGoals = GoalsJson(goals)]

\* Date.now() as an id: a time stamp that no goal of the list carries (two goals
\* are added by clicks more than a millisecond apart)
Now(goals) ==
  CHOOSE t \in 1..(Len(goals) + 1) :
    /\ \A i \in 1..Len(goals) : goals[i].id # t
    /\ \A u \in 1..(t - 1) : \E i \in 1..Len(goals) : goals[i].id = u

InitGoals ==
  /\ \E entry \in
          { Stored("absent", <<>>), Stored("invalid", <<>>), Stored("json", <<>>),
            Stored("json", <<[ id |-> 1, name |-> "a", currentAmount |-> Fin(12),
                               targetAmount |-> Fin(12) ]>>) } :
       /\ goalsCard = GoalsMounted(Loaded(entry))
       /\ localStorage = [customSavingsGoals |-> GoalsJson(Loaded(entry)),
                          retirementBreakdown |-> Stored("absent", <<>>)]
  /\ savingsCard = Unmounted
  /\ retirementCard = Unmounted

\* the card leaves the screen and comes back: lazy initializer, then the effect
RemountGoals ==
  /\ goalsCard.mounted
  /\ goalsCard' = GoalsMounted(Loaded(localStorage.customSavingsGoals))
  /\ localStorage' = GoalsSaved(Loaded(localStorage.customSavingsGoals))
  /\ UNCHANGED <<savingsCard, retirementCard, beyondCards>>

\* the onClick of line 105 and the onChange handlers of the three inputs
GoalsFormInput ==
  /\ goalsCard.mounted
  /\ \/ ~goalsCard.isAddingNew /\ goalsCard' = [goalsCard EXCEPT !.isAddingNew = TRUE]
     \/ /\ goalsCard.isAddingNew
        /\ \E name \in {"", " ", "a"} : goalsCard' = [goalsCard EXCEPT !.newGoalName = name]
     \/ /\ goalsCard.isAddingNew
        /\ \E text \in NumberInputTexts : goalsCard' = [goalsCard EXCEPT !.newGoalTarget = text]
     \/ /\ \E i \in 1..Len(goalsCard.goals) : goalsCard.goals[i].id = goalsCard.editingGoalId
        /\ \E text \in NumberInputTexts : goalsCard' = [goalsCard EXCEPT !.editCurrentAmount = text]
  /\ UNCHANGED <<localStorage, savingsCard, retirementCard, beyondCards>>

\* x < bound; false for NaN and for Infinity.  The numbers are integers, so
\* x <= 0 is x < 1.
LessThan(x, bound) == x.kind = "finite" /\ x.n < bound

\* the Add button (lines 243-245, not disabled) runs addNewGoal, lines 44-59
addNewGoal ==
  LET target == parseFloat(goalsCard.newGoalTarget)
      goals  == Append(goalsCard.goals,
                       [ id |-> Now(goalsCard.goals), name |-> trim(goalsCard.newGoalName),
                         currentAmount |-> Fin(0), targetAmount |-> target ])
  IN  /\ goalsCard.mounted /\ goalsCard.isAddingNew
      /\ Len(goalsCard.goals) < MaxGoals
      /\ ~(trim(goalsCard.newGoalName) = "" \/ goalsCard.newGoalTarget = ""
             \/ LessThan(parseFloat(goalsCard.newGoalTarget), 1))
      /\ IF trim(goalsCard.newGoalName) = "" \/ target.kind = "nan" \/ LessThan(target, 1)
         THEN UNCHANGED <<goalsCard, localStorage>>
         ELSE /\ goalsCard' = [GoalsMounted(goals) EXCEPT
                                 !.editingGoalId = goalsCard.editingGoalId,
                                 !.editCurrentAmount = goalsCard.editCurrentAmount]
              /\ localStorage' = GoalsSaved(goals)
      /\ UNCHANGED <<savingsCard, retirementCard, beyondCards>>

\* the pencil of a row that is not being edited; null.toString() throws after
\* setEditingGoalId was called
startEditAmount ==
  /\ goalsCard.mounted
  /\ \E i \in 1..Len(goalsCard.goals) :
       LET goal == goalsCard.goals[i]
       IN  /\ goal.id # goalsCard.editingGoalId
           /\ goalsCard' =
                [goalsCard EXCEPT
                   !.editingGoalId = goal.id,
                   !.editCurrentAmount =
                      IF goal.currentAmount = Special.null THEN @ ELSE NumberText(goal.currentAmount)]
  /\ UNCHANGED <<localStorage, savingsCard, retirementCard, beyondCards>>

\* cancelEditAmount (lines 66-69) and cancelAddNew (88-92)
GoalsCancel ==
  /\ goalsCard.mounted
  /\ \/ /\ \E i \in 1..Len(goalsCard.goals) : goalsCard.goals[i].id = goalsCard.editingGoalId
        /\ goalsCard' = [goalsCard EXCEPT !.editingGoalId = 0, !.editCurrentAmount = ""]
     \/ /\ goalsCard.isAddingNew
        /\ goalsCard' = [goalsCard EXCEPT !.isAddingNew = FALSE, !.newGoalName = "",
                                          !.newGoalTarget = ""]
  /\ UNCHANGED <<localStorage, savingsCard, retirementCard, beyondCards>>

\* the check mark of the row being edited runs saveEditAmount, lines 71-80
saveEditAmount ==
  LET parsed == parseFloat(goalsCard.editCurrentAmount)
      goals  == [ i \in 1..Len(goalsCard.goals) |->
                    IF goalsCard.goals[i].id = goalsCard.editingGoalId
                    THEN [goalsCard.goals[i] EXCEPT !.currentAmount = parsed]
                    ELSE goalsCard.goals[i] ]
  IN  /\ goalsCard.mounted
      /\ \E i \in 1..Len(goalsCard.goals) : goalsCard.goals[i].id = goalsCard.editingGoalId
      /\ IF parsed.kind = "nan" \/ LessThan(parsed, 0)
         THEN UNCHANGED <<goalsCard, localStorage>>
         ELSE /\ goalsCard' = [goalsCard EXCEPT !.goals = goals, !.editingGoalId = 0,
                                                !.editCurrentAmount = ""]
              /\ localStorage' = GoalsSaved(goals)
      /\ UNCHANGED <<savingsCard, retirementCard, beyondCards>>

\* the bin of a row that is not being edited runs deleteGoal, lines 82-86
deleteGoal ==
  /\ goalsCard.mounted
  /\ \E i \in 1..Len(goalsCard.goals), confirmed \in BOOLEAN :
       LET id    == goalsCard.goals[i].id
           goals == SelectSeq(goalsCard.goals, LAMBDA g : g.id # id)
       IN  /\ id # goalsCard.editingGoalId
           /\ IF confirmed
              THEN /\ goalsCard' = [goalsCard EXCEPT !.goals = goals]
                   /\ localStorage' = GoalsSaved(goals)
              ELSE UNCHANGED <<goalsCard, localStorage>>
  /\ UNCHANGED <<savingsCard, retirementCard, beyondCards>>

(***************************************************************************)
(* SavingsCard: the edit of the savings amount, sent to api.savings.update *)
(***************************************************************************)
InitSavings ==
  /\ \E savings \in {Fin(0), Fin(12)} :
       savingsCard = [ mounted |-> TRUE, savings |-> savings, isEditing |-> FALSE,
                       editValue |-> "", request |-> Special.none ]
  /\ localStorage = [customSavingsGoals |-> Stored("absent", <<>>), retirementBreakdown |-> Stored("absent", <<>>)]
  /\ goalsCard = Unmounted
  /\ retirementCard = Unmounted

\* startEdit (lines 24-27), the onChange of the input, cancelEdit (29-32)
SavingsFormInput ==
  /\ savingsCard.mounted
  /\ \/ /\ ~savingsCard.isEditing
        /\ savingsCard' = [savingsCard EXCEPT !.isEditing = TRUE,
                                              !.editValue = NumberText(savingsCard.savings)]
     \/ /\ savingsCard.isEditing
        /\ \E text \in NumberInputTexts : savingsCard' = [savingsCard EXCEPT !.editValue = text]
     \/ /\ savingsCard.isEditing
        /\ savingsCard' = [savingsCard EXCEPT !.isEditing = FALSE, !.editValue = ""]
  /\ UNCHANGED <<localStorage, goalsCard, retirementCard, beyondCards>>

\* saveEdit up to its await, lines 34-37: the value goes to the server
saveEdit ==
  /\ savingsCard.mounted /\ savingsCard.isEditing
  /\ savingsCard.request = Special.none
  /\ IF parseFloat(savingsCard.editValue).kind = "nan"
     THEN UNCHANGED savingsCard
     ELSE savingsCard' = [savingsCard EXCEPT !.request = parseFloat(savingsCard.editValue)]
  /\ UNCHANGED <<localStorage, goalsCard, retirementCard, beyondCards>>

\* saveEdit after its await, lines 38-39; a rejected request ends the handler
saveEditSettles ==
  /\ savingsCard.mounted
  /\ savingsCard.request # Special.none
  /\ \/ savingsCard' = [savingsCard EXCEPT !.savings = savingsCard.request,
                                            !.isEditing = FALSE, !.request = Special.none]
     \/ savingsCard' = [savingsCard EXCEPT !.request = Special.none]
  /\ UNCHANGED <<localStorage, goalsCard, retirementCard, beyondCards>>

(***************************************************************************)
(* RetirementBreakdownCard.  idCounter is 0 in every render, so every item *)
(* gets the id idPrefix-1.                                                 *)
(***************************************************************************)
BreakdownId == "r-1"

RetirementMounted(enabled, items) ==
  [ mounted |-> TRUE, enabled |-> enabled, breakdownItems |-> items, isAdding |-> FALSE,
    editingId |-> "", label |-> "", amount |-> "" ]

\* saveItems, lines 37-41
ItemsSaved(items) ==
  [localStorage EXCEPT !.retirementBreakdown = Stored("json", JSONStringify(items, {"amount"}))]

\* the card renders something: line 83
Rendered == retirementCard.enabled \/ retirementCard.breakdownItems # <<>>

\* a row's edit form is open
EditingRow ==
  \E i \in 1..Len(retirementCard.breakdownItems) :
    retirementCard.breakdownItems[i].id = retirementCard.editingId

InitRetirement ==
  /\ \E enabled \in BOOLEAN,
        entry \in {Stored("absent", <<>>), Stored("invalid", <<>>), Stored("json", <<[id |-> BreakdownId, label |-> "a", amount |-> Fin(12)]>>)} :
       /\ retirementCard = RetirementMounted(enabled, Loaded(entry))
       /\ localStorage = [customSavingsGoals |-> Stored("absent", <<>>), retirementBreakdown |-> entry]
  /\ goalsCard = Unmounted
  /\ savingsCard = Unmounted

\* the card comes back to the screen, the preference possibly changed: lines 20-35
RemountRetirement ==
  /\ retirementCard.mounted
  /\ \E enabled \in BOOLEAN :
       retirementCard' = RetirementMounted(enabled, Loaded(localStorage.retirementBreakdown))
  /\ UNCHANGED <<localStorage, goalsCard, savingsCard, beyondCards>>

\* the + button (lines 95-104), the onChange handlers, startEdit (70-74) and
\* resetForm (76-81)
RetirementFormInput ==
  /\ retirementCard.mounted /\ Rendered
  /\ \/ /\ ~retirementCard.isAdding /\ retirementCard.enabled
        /\ retirementCard' = [retirementCard EXCEPT !.isAdding = TRUE]
     \/ /\ retirementCard.isAdding \/ EditingRow
        /\ \E text \in {"", "a"} : retirementCard' = [retirementCard EXCEPT !.label = text]
     \/ /\ retirementCard.isAdding \/ EditingRow
        /\ \E text \in NumberInputTexts : retirementCard' = [retirementCard EXCEPT !.amount = text]
     \/ /\ retirementCard.enabled
        /\ \E i \in 1..Len(retirementCard.breakdownItems) :
             LET item == retirementCard.breakdownItems[i]
             IN  /\ item.id # retirementCard.editingId
                 /\ retirementCard' =
                      [retirementCard EXCEPT
                         !.editingId = item.id,
                         !.label = item.label,
                         !.amount = IF item.amount = Special.null THEN @ ELSE NumberText(item.amount)]
     \/ /\ retirementCard.isAdding \/ EditingRow
        /\ retirementCard' = [retirementCard EXCEPT !.editingId = "", !.label = "",
                                                    !.amount = "", !.isAdding = FALSE]
  /\ UNCHANGED <<localStorage, goalsCard, savingsCard, beyondCards>>

\* the Add button of the add form runs handleAdd, lines 46-55
handleAdd ==
  LET items == Append(retirementCard.breakdownItems,
                      [ id |-> BreakdownId, label |-> retirementCard.label,
                        amount |-> parseFloat(retirementCard.amount) ])
  IN  /\ retirementCard.mounted /\ Rendered /\ retirementCard.isAdding
      /\ Len(retirementCard.breakdownItems) < MaxGoals
      /\ IF retirementCard.label = "" \/ retirementCard.amount = ""
         THEN UNCHANGED <<retirementCard, localStorage>>
         ELSE /\ retirementCard' = RetirementMounted(retirementCard.enabled, items)
              /\ localStorage' = ItemsSaved(items)
      /\ UNCHANGED <<goalsCard, savingsCard, beyondCards>>

\* the check mark of a row being edited runs handleUpdate, lines 57-64
handleUpdate ==
  LET items == [ i \in 1..Len(retirementCard.breakdownItems) |->
                   IF retirementCard.breakdownItems[i].id = retirementCard.editingId
                   THEN [ id |-> retirementCard.editingId, label |-> retirementCard.label,
                          amount |-> parseFloat(retirementCard.amount) ]
                   ELSE retirementCard.breakdownItems[i] ]
  IN  /\ retirementCard.mounted /\ EditingRow
      /\ IF retirementCard.label = "" \/ retirementCard.amount = ""
         THEN UNCHANGED <<retirementCard, localStorage>>
         ELSE /\ retirementCard' = RetirementMounted(retirementCard.enabled, items)
              /\ localStorage' = ItemsSaved(items)
      /\ UNCHANGED <<goalsCard, savingsCard, beyondCards>>

\* the bin of a row that is not being edited runs handleDelete, lines 66-68
handleDelete ==
  /\ retirementCard.mounted /\ retirementCard.enabled
  /\ \E i \in 1..Len(retirementCard.breakdownItems) :
       LET id    == retirementCard.breakdownItems[i].id
           items == SelectSeq(retirementCard.breakdownItems, LAMBDA item : item.id # id)
       IN  /\ id # retirementCard.editingId
           /\ retirementCard' = [retirementCard EXCEPT !.breakdownItems = items]
           /\ localStorage' = ItemsSaved(items)
  /\ UNCHANGED <<goalsCard, savingsCard, beyondCards>>

\* the formatters are not in use
FormatSideIdle ==
  /\ FormatterIdle
  /\ tables = ModuleTables
  /\ CallersIdle
  /\ LocaleIdle

InitCards ==
  /\ FormatSideIdle
  /\ PagesIdle
  /\ DashboardIdle
  /\ SummaryIdle
  /\ InitGoals \/ InitSavings \/ InitRetirement

NextCards ==
  \/ RemountGoals \/ GoalsFormInput \/ addNewGoal \/ startEditAmount \/ GoalsCancel
  \/ saveEditAmount \/ deleteGoal
  \/ SavingsFormInput \/ saveEdit \/ saveEditSettles
  \/ RemountRetirement \/ RetirementFormInput \/ handleAdd \/ handleUpdate
  \/ handleDelete

SpecCards == InitCards /\ [][NextCards]_vars

(***************************************************************************)
(* The Dashboard page, its TransfersCard and the "Transferred Items"       *)
(* preference of the Settings page.  App shows one page at a time, so      *)
(* opening Settings or the Summary page takes the Dashboard, and with it   *)
(* the state of TransfersCard, off the screen; without a user App shows    *)
(* the Login page.  The server and the refresh of useMonth are seen        *)
(* through their effect on summary.items.                                  *)
(***************************************************************************)
MaxItems == 2

MaxCalls == 3

beyondDashboard == <<formatSideVars, cardVars, summaryVars, pagesVars>>

TransferDestinations == {"savings", "retirement_savings"}

\* the lists of summary.items a month can hold when the page loads
LoadedItems ==
  UNION { { [ i \in 1..n |-> [ id |-> i, description |-> "rent", amount |-> Fin(12),
                               spent_on |-> "today", savings_destination |-> dest[i] ] ]
            : dest \in [1..n -> TransferDestinations \cup {"none"}] }
          : n \in 0..MaxItems }

\* the condition of TransfersCard in the Dashboard, lines 625-633
TransfersCardShown_Always(enabled, items) == TRUE

TransfersCardShown(enabled, items) ==
  \/ enabled
  \/ \E i \in 1..Len(items) : items[i].savings_destination \in TransferDestinations

\* const transferItems, lines 35-39
transferItems == SelectSeq(summary.items,
                           LAMBDA item : item.savings_destination \in TransferDestinations)

\* the useState initial values, lines 28-33; editingId 0 is null, ids are positive
TransfersCardMounted ==
  [ mounted |-> TRUE, isAdding |-> FALSE, editingId |-> 0, description |-> "",
    amount |-> "", spentOn |-> "today", savingsDestination |-> "savings" ]

\* resetForm, lines 82-89
resetForm(card) ==
  [card EXCEPT !.editingId = 0, !.description = "", !.amount = "", !.spentOn = "today",
               !.savingsDestination = "savings", !.isAdding = FALSE]

\* what a render of App leaves of the card: Login, Settings and the Summary page
\* replace the Dashboard, and the Dashboard mounts the card only under its condition
Render(a, enabled, s, card) ==
  IF a.user /\ ~a.showSettings /\ ~a.showSummary /\ TransfersCardShown(enabled, s.items)
  THEN IF card.mounted THEN card ELSE TransfersCardMounted
  ELSE Unmounted

\* the row of the item being edited shows the edit form, line 182
TransfersEditingRow ==
  \E i \in 1..Len(transferItems) : transferItems[i].id = transfersCard.editingId

\* an id the server has not given to an item of the month
NewId == CHOOSE id \in 1..(Len(summary.items) + 1) :
           \A i \in 1..Len(summary.items) : summary.items[i].id # id

InitDashboard ==
  /\ FormatSideIdle
  /\ PagesIdle
  /\ CardsIdle
  /\ SummaryIdle
  /\ app = [user |-> TRUE, showSettings |-> FALSE, showSummary |-> FALSE]
  /\ transfersEnabled \in BOOLEAN
  /\ \E closed \in BOOLEAN, items \in LoadedItems :
       summary = [is_closed |-> closed, items |-> items]
  /\ transfersCard = Render(app, transfersEnabled, summary, Unmounted)
  /\ apiItems = [calls |-> 0, last |-> "none"]

\* the Dashboard shown by App, lines 46-55
DashboardPage == app.user /\ ~app.showSettings /\ ~app.showSummary

\* a Summary page whose Layout has the settings link too
onSettingsClick_FromSummary ==
  /\ app.user /\ ~app.showSettings
  /\ app' = [app EXCEPT !.showSettings = TRUE]
  /\ transfersCard' = Render(app', transfersEnabled, summary, transfersCard)
  /\ UNCHANGED <<transfersEnabled, summary, apiItems, beyondDashboard>>

\* onSettingsClick of the Dashboard
onSettingsClick ==
  /\ DashboardPage
  /\ app' = [app EXCEPT !.showSettings = TRUE]
  /\ transfersCard' = Render(app', transfersEnabled, summary, transfersCard)
  /\ UNCHANGED <<transfersEnabled, summary, apiItems, beyondDashboard>>

\* onSummaryClick of the Dashboard
onSummaryClick ==
  /\ DashboardPage
  /\ app' = [app EXCEPT !.showSummary = TRUE]
  /\ transfersCard' = Render(app', transfersEnabled, summary, transfersCard)
  /\ UNCHANGED <<transfersEnabled, summary, apiItems, beyondDashboard>>

\* onBack of the page App shows: of Settings, lines 33-35, else of the Summary
\* page, lines 37-44
onBack ==
  /\ app.user
  /\ app.showSettings \/ app.showSummary
  /\ app' = IF app.showSettings THEN [app EXCEPT !.showSettings = FALSE]
                                ELSE [app EXCEPT !.showSummary = FALSE]
  /\ transfersCard' = Render(app', transfersEnabled, summary, transfersCard)
  /\ UNCHANGED <<transfersEnabled, summary, apiItems, beyondDashboard>>

\* the user of useAuth goes away: App shows Login and keeps its own state
logout ==
  /\ app.user
  /\ app' = [app EXCEPT !.user = FALSE]
  /\ transfersCard' = Render(app', transfersEnabled, summary, transfersCard)
  /\ UNCHANGED <<transfersEnabled, summary, apiItems, beyondDashboard>>

\* a user logs in: App shows the page its state names
login ==
  /\ ~app.user
  /\ app' = [app EXCEPT !.user = TRUE]
  /\ transfersCard' = Render(app', transfersEnabled, summary, transfersCard)
  /\ UNCHANGED <<transfersEnabled, summary, apiItems, beyondDashboard>>

\* the switch of the Settings page, line 184
setTransfersEnabled ==
  /\ app.user /\ app.showSettings
  /\ transfersEnabled' = ~transfersEnabled
  /\ UNCHANGED <<app, summary, transfersCard, apiItems, beyondDashboard>>

\* closeMonth and reopenMonth of the month navigation: isReadOnly, line 561
closeMonth ==
  /\ DashboardPage
  /\ summary' = [summary EXCEPT !.is_closed = ~@]
  /\ UNCHANGED <<app, transfersEnabled, transfersCard, apiItems, beyondDashboard>>

\* the + button of the card, lines 97-106
TransfersAddClick ==
  /\ transfersCard.mounted
  /\ ~summary.is_closed /\ ~transfersCard.isAdding /\ transfersEnabled
  /\ transfersCard' = [transfersCard EXCEPT !.isAdding = TRUE]
  /\ UNCHANGED <<app, transfersEnabled, summary, apiItems, beyondDashboard>>

\* the fields of the add form (lines 109-140) and of the edit row (182-217)
TransfersFormInput ==
  /\ transfersCard.mounted
  /\ transfersCard.isAdding \/ TransfersEditingRow
  /\ \/ \E text \in {"", "rent"} :
          transfersCard' = [transfersCard EXCEPT !.description = text]
     \/ \E text \in {"", "12"} :
          transfersCard' = [transfersCard EXCEPT !.amount = text]
     \/ \E dest \in TransferDestinations :
          transfersCard' = [transfersCard EXCEPT !.savingsDestination = dest]
  /\ UNCHANGED <<app, transfersEnabled, summary, apiItems, beyondDashboard>>

\* the Add button of the add form runs handleAdd, lines 41-53
TransfersHandleAdd ==
  /\ transfersCard.mounted /\ transfersCard.isAdding
  /\ apiItems.calls < MaxCalls /\ Len(summary.items) < MaxItems
  /\ IF transfersCard.description = "" \/ transfersCard.amount = ""
     THEN UNCHANGED <<apiItems, summary, transfersCard>>
     ELSE /\ apiItems' = [calls |-> apiItems.calls + 1, last |-> "create"]
          /\ summary' = [summary EXCEPT !.items =
                           Append(@, [ id |-> NewId,
                                       description |-> transfersCard.description,
                                       amount |-> parseFloat(transfersCard.amount),
                                       spent_on |-> transfersCard.spentOn,
                                       savings_destination |-> transfersCard.savingsDestination ])]
          /\ transfersCard' = Render(app, transfersEnabled, summary', resetForm(transfersCard))
  /\ UNCHANGED <<app, transfersEnabled, beyondDashboard>>

\* the pencil of a row, lines 263-271, runs startEdit, lines 74-80
TransfersStartEdit ==
  /\ transfersCard.mounted
  /\ ~summary.is_closed /\ transfersEnabled
  /\ \E i \in 1..Len(transferItems) :
       LET item == transferItems[i]
       IN  /\ item.id # transfersCard.editingId
           /\ transfersCard' = [transfersCard EXCEPT !.editingId = item.id,
                                   !.description = item.description,
                                   !.amount = NumberText(item.amount),
                                   !.spentOn = item.spent_on,
                                   !.savingsDestination = item.savings_destination]
  /\ UNCHANGED <<app, transfersEnabled, summary, apiItems, beyondDashboard>>

\* the check mark of the row being edited runs handleUpdate, lines 55-67
TransfersHandleUpdate ==
  /\ transfersCard.mounted /\ TransfersEditingRow
  /\ apiItems.calls < MaxCalls
  /\ IF transfersCard.description = "" \/ transfersCard.amount = ""
     THEN UNCHANGED <<apiItems, summary, transfersCard>>
     ELSE /\ apiItems' = [calls |-> apiItems.calls + 1, last |-> "update"]
          /\ summary' = [summary EXCEPT !.items =
                           [ i \in 1..Len(@) |->
                               IF @[i].id = transfersCard.editingId
                               THEN [ id |-> @[i].id,
                                      description |-> transfersCard.description,
                                      amount |-> parseFloat(transfersCard.amount),
                                      spent_on |-> transfersCard.spentOn,
                                      savings_destination |-> transfersCard.savingsDestination ]
                               ELSE @[i] ]]
          /\ transfersCard' = Render(app, transfersEnabled, summary', resetForm(transfersCard))
  /\ UNCHANGED <<app, transfersEnabled, beyondDashboard>>

\* the bin of a row, lines 272-277, runs handleDelete, lines 69-72
TransfersHandleDelete ==
  /\ transfersCard.mounted
  /\ ~summary.is_closed /\ transfersEnabled
  /\ apiItems.calls < MaxCalls
  /\ \E i \in 1..Len(transferItems) :
       LET id == transferItems[i].id
       IN  /\ id # transfersCard.editingId
           /\ apiItems' = [calls |-> apiItems.calls + 1, last |-> "delete"]
           /\ summary' = [summary EXCEPT !.items = SelectSeq(@, LAMBDA item : item.id # id)]
           /\ transfersCard' = Render(app, transfersEnabled, summary', transfersCard)
  /\ UNCHANGED <<app, transfersEnabled, beyondDashboard>>

\* Cancel of the add form (line 149) and the cross of the edit row (line 229)
TransfersCancel ==
  /\ transfersCard.mounted
  /\ transfersCard.isAdding \/ TransfersEditingRow
  /\ transfersCard' = resetForm(transfersCard)
  /\ UNCHANGED <<app, transfersEnabled, summary, apiItems, beyondDashboard>>

NextDashboard ==
  \/ onSettingsClick \/ onSummaryClick \/ onBack \/ logout \/ login
  \/ setTransfersEnabled \/ closeMonth
  \/ TransfersAddClick \/ TransfersFormInput \/ TransfersHandleAdd \/ TransfersStartEdit
  \/ TransfersHandleUpdate \/ TransfersHandleDelete \/ TransfersCancel

SpecDashboard == InitDashboard /\ [][NextDashboard]_vars

(***************************************************************************)
(* The Summary page: the month it has loaded and the data of its           *)
(* "Spending by Category" chart, computed at every render.                 *)
(***************************************************************************)
MaxSummaryItems == 3

beyondSummary == <<formatSideVars, cardVars, dashboardVars, pagesVars>>

\* useState<MonthSummary | null>(null), line 44, and what the loads put there:
\* months whose items have a category_label, an amount and a savings_destination
MonthSummaries ==
  LET SummaryItems == [ category_label : {"Food", "Rent", "Fun"}, amount : {1, 2},
                        savings_destination : {"none", "savings"} ]
  IN  {[loaded |-> FALSE, items |-> <<>>]}
        \cup { [loaded |-> TRUE, items |-> items]
               : items \in UNION { [1..n -> SummaryItems] : n \in 0..MaxSummaryItems } }

\* the reduce of lines 123-131; acc.find gives the first entry of the category,
\* here its index, 0 when there is none
RECURSIVE reduce(_, _)
reduce(items, acc) ==
  IF items = <<>> THEN acc
  ELSE LET item     == Head(items)
           find(label) ==
             IF \E i \in 1..Len(acc) : acc[i].category = label
             THEN CHOOSE i \in 1..Len(acc) :
                    /\ acc[i].category = label
                    /\ \A j \in 1..(i - 1) : acc[j].category # label
             ELSE 0
           existing == find(item.category_label)
       IN  reduce(Tail(items),
                  IF existing # 0
                  THEN [acc EXCEPT ![existing].amount = @ + item.amount]
                  ELSE Append(acc, [category |-> item.category_label,
                                    amount |-> item.amount]))

\* the comparator of line 132
compare_Ascending(a, b) == a.amount - b.amount

compare(a, b) == b.amount - a.amount

\* Array.prototype.sort is stable: an entry goes behind the entries placed so
\* far that the comparator does not put after it
RECURSIVE sort(_, _)
sort(list, acc) ==
  IF list = <<>> THEN acc
  ELSE LET entry == Head(list)
           k     == Cardinality({ i \in 1..Len(acc) : compare(acc[i], entry) <= 0 })
       IN  sort(Tail(list), SubSeq(acc, 1, k) \o <<entry>> \o SubSeq(acc, k + 1, Len(acc)))

\* const spendingByCategory, lines 121-132; of no month it is []
spendingByCategory(ms) ==
  IF ~ms.loaded THEN <<>>
  ELSE sort(reduce(SelectSeq(ms.items, LAMBDA i : i.savings_destination = "none"), <<>>),
            <<>>)

\* the page shows a month the server returned and has not rendered it yet
InitSummary ==
  /\ FormatSideIdle
  /\ PagesIdle
  /\ CardsIdle
  /\ DashboardIdle
  /\ monthSummary \in MonthSummaries
  /\ spendingChart = [rendered |-> FALSE, data |-> <<>>]

\* a render of SummaryPage computes the data of the chart
SummaryPageRender ==
  /\ spendingChart' = [rendered |-> TRUE, data |-> spendingByCategory(monthSummary)]
  /\ UNCHANGED <<monthSummary, beyondSummary>>

SpecSummary == InitSummary /\ [][SummaryPageRender]_vars

(***************************************************************************)
(* The Settings page: the "Change Password" form and the request of        *)
(* api.auth.changePassword.  A password is the sequence of the UTF-16 code *)
(* units that String.length counts.                                        *)
(***************************************************************************)
beyondSettings == <<formatSideVars, cardVars, dashboardVars, summaryVars, loadsVars, prefsVars>>

Repeat(char, n) == [ i \in 1..n |-> char ]

\* what is typed into the password fields: lengths around both limits, two
\* texts of one length, and three characters outside the basic plane, which
\* are six code units
PasswordTexts ==
  { Repeat("a", n) : n \in {0, 5, 6, 128, 129} }
    \cup { Repeat("b", 6),
           <<"U+D83D", "U+DE00", "U+D83D", "U+DE00", "U+D83D", "U+DE00">> }

\* the useState initial values, lines 22-35
InitSettings ==
  /\ FormatSideIdle
  /\ CardsIdle
  /\ DashboardIdle
  /\ SummaryIdle
  /\ LoadsIdle
  /\ PrefsIdle
  /\ settingsPage = [ mounted |-> TRUE, currentPassword |-> <<>>, newPassword |-> <<>>,
                      confirmPassword |-> <<>>, passwordLoading |-> FALSE,
                      passwordError |-> "", passwordSuccess |-> FALSE ]
  /\ authRequest = [state |-> "none"]

\* the three fields, lines 232-254, disabled while passwordLoading
PasswordInput ==
  /\ settingsPage.mounted /\ ~settingsPage.passwordLoading
  /\ \/ \E text \in {<<>>, Repeat("a", 6)} :
          settingsPage' = [settingsPage EXCEPT !.currentPassword = text]
     \/ \E text \in PasswordTexts :
          settingsPage' = [settingsPage EXCEPT !.newPassword = text]
     \/ \E text \in PasswordTexts :
          settingsPage' = [settingsPage EXCEPT !.confirmPassword = text]
  /\ UNCHANGED <<authRequest, beyondSettings>>

\* handleChangePassword without the comparison of lines 73-76
handleChangePassword_NoConfirmation ==
  /\ settingsPage.mounted /\ ~settingsPage.passwordLoading
  /\ IF Len(settingsPage.newPassword) < 6 \/ Len(settingsPage.newPassword) > 128
     THEN /\ settingsPage' = [settingsPage EXCEPT
                                !.passwordError = "Password must be 6-128 characters",
                                !.passwordSuccess = FALSE]
          /\ UNCHANGED authRequest
     ELSE /\ settingsPage' = [settingsPage EXCEPT !.passwordError = "",
                                !.passwordSuccess = FALSE, !.passwordLoading = TRUE]
          /\ authRequest' = [ state |-> "pending",
                              currentPassword |-> settingsPage.currentPassword,
                              newPassword |-> settingsPage.newPassword ]
  /\ UNCHANGED beyondSettings

\* the submit of the form (line 230, its button disabled while passwordLoading)
\* runs handleChangePassword, lines 63-79, as far as its await
handleChangePassword ==
  /\ settingsPage.mounted /\ ~settingsPage.passwordLoading
  /\ IF Len(settingsPage.newPassword) < 6 \/ Len(settingsPage.newPassword) > 128
     THEN /\ settingsPage' = [settingsPage EXCEPT
                                !.passwordError = "Password must be 6-128 characters",
                                !.passwordSuccess = FALSE]
          /\ UNCHANGED authRequest
     ELSE IF settingsPage.newPassword # settingsPage.confirmPassword
     THEN /\ settingsPage' = [settingsPage EXCEPT
                                !.passwordError = "Passwords do not match",
                                !.passwordSuccess = FALSE]
          /\ UNCHANGED authRequest
     ELSE /\ settingsPage' = [settingsPage EXCEPT !.passwordError = "",
                                !.passwordSuccess = FALSE, !.passwordLoading = TRUE]
          /\ authRequest' = [ state |-> "pending",
                              currentPassword |-> settingsPage.currentPassword,
                              newPassword |-> settingsPage.newPassword ]
  /\ UNCHANGED beyondSettings

\* the request succeeds: lines 81-85 and the finally of line 89
changePasswordResolves ==
  /\ authRequest.state = "pending"
  /\ authRequest' = [authRequest EXCEPT !.state = "resolved"]
  /\ settingsPage' = [settingsPage EXCEPT !.currentPassword = <<>>, !.newPassword = <<>>,
                        !.confirmPassword = <<>>, !.passwordSuccess = TRUE,
                        !.passwordLoading = FALSE]
  /\ UNCHANGED beyondSettings

\* the request fails: the catch of line 87 and the finally of line 89
changePasswordRejects ==
  /\ authRequest.state = "pending"
  /\ authRequest' = [authRequest EXCEPT !.state = "rejected"]
  /\ settingsPage' = [settingsPage EXCEPT
                        !.passwordError = "Failed to change password. Check your current password.",
                        !.passwordLoading = FALSE]
  /\ UNCHANGED beyondSettings

\* the timer of line 85 takes the success note away
passwordSuccessTimeout ==
  /\ settingsPage.mounted /\ settingsPage.passwordSuccess
  /\ settingsPage' = [settingsPage EXCEPT !.passwordSuccess = FALSE]
  /\ UNCHANGED <<authRequest, beyondSettings>>

NextSettings ==
  \/ PasswordInput \/ handleChangePassword \/ changePasswordResolves
  \/ changePasswordRejects \/ passwordSuccessTimeout

SpecSettings == InitSettings /\ [][NextSettings]_vars

(***************************************************************************)
(* The Summary page and its requests.  loadInitialData, loadMonthData and  *)
(* loadYearData each set loading, await a response and clear loading in    *)
(* their finally; the responses arrive in any order.  A month is known by  *)
(* its id, and 0 stands for null.                                          *)
(***************************************************************************)
MaxMonths == 2

MaxPending == 3

MonthIds == 1..MaxMonths

beyondLoads == <<formatSideVars, cardVars, dashboardVars, summaryVars, settingsVars, prefsVars>>

\* the effect of lines 68-74 with a request list: loadMonthData (76-78) or
\* loadYearData (86-88) as far as their await
loadEffect(page, pending) ==
  IF page.viewMode = "month" /\ page.selectedMonthId # 0
  THEN [ page    |-> [page EXCEPT !.loading = TRUE],
         pending |-> Append(pending, [kind |-> "month", month |-> page.selectedMonthId]) ]
  ELSE IF page.viewMode = "year"
  THEN [ page    |-> [page EXCEPT !.loading = TRUE],
         pending |-> Append(pending, [kind |-> "year", month |-> 0]) ]
  ELSE [ page |-> page, pending |-> pending ]

Without(pending, i) == SubSeq(pending, 1, i - 1) \o SubSeq(pending, i + 1, Len(pending))

\* the page after its mount: the useState values of lines 40-45 and both
\* effects, loadInitialData (48-66) as far as its await
InitLoads ==
  /\ FormatSideIdle
  /\ CardsIdle
  /\ DashboardIdle
  /\ SummaryIdle
  /\ SettingsIdle
  /\ PrefsIdle
  /\ \E initialMonthId \in {0} \cup MonthIds, current \in MonthIds :
       LET page == [ mounted |-> TRUE, initialMonthId |-> initialMonthId,
                     viewMode |-> "month", loading |-> TRUE, months |-> FALSE,
                     selectedMonthId |-> initialMonthId, monthSummary |-> 0,
                     yearStats |-> FALSE, failed |-> FALSE ]
           first == loadEffect(page, <<[kind |-> "initial", month |-> 0]>>)
       IN  /\ summaryPage = first.page
           /\ monthsApi = [current |-> current, pending |-> first.pending]

\* Promise.all of line 52 resolves: lines 56-60 and the finally of line 63,
\* then the effect of lines 68-74 if selectedMonthId changed
loadInitialDataResolves ==
  \E i \in 1..Len(monthsApi.pending) :
    /\ monthsApi.pending[i].kind = "initial"
    /\ LET page == [summaryPage EXCEPT
                      !.months = TRUE,
                      !.monthSummary = monthsApi.current,
                      !.selectedMonthId = IF summaryPage.initialMonthId = 0
                                          THEN monthsApi.current ELSE @,
                      !.loading = FALSE]
           rest == Without(monthsApi.pending, i)
           next == IF page.selectedMonthId # summaryPage.selectedMonthId
                   THEN loadEffect(page, rest)
                   ELSE [page |-> page, pending |-> rest]
       IN  /\ summaryPage' = next.page
           /\ monthsApi' = [monthsApi EXCEPT !.pending = next.pending]
    /\ UNCHANGED beyondLoads

\* api.months.get of line 79 resolves: line 80 and the finally of line 82
loadMonthDataResolves ==
  \E i \in 1..Len(monthsApi.pending) :
    /\ monthsApi.pending[i].kind = "month"
    /\ summaryPage' = [summaryPage EXCEPT !.monthSummary = monthsApi.pending[i].month,
                                          !.loading = FALSE]
    /\ monthsApi' = [monthsApi EXCEPT !.pending = Without(@, i)]
    /\ UNCHANGED beyondLoads

\* api.stats.get of line 89 resolves: line 90 and the finally of line 92
loadYearDataResolves ==
  \E i \in 1..Len(monthsApi.pending) :
    /\ monthsApi.pending[i].kind = "year"
    /\ summaryPage' = [summaryPage EXCEPT !.yearStats = TRUE, !.loading = FALSE]
    /\ monthsApi' = [monthsApi EXCEPT !.pending = Without(@, i)]
    /\ UNCHANGED beyondLoads

\* a request fails: only the finally of its function runs
loadRejects ==
  \E i \in 1..Len(monthsApi.pending) :
    /\ summaryPage' = [summaryPage EXCEPT !.loading = FALSE, !.failed = TRUE]
    /\ monthsApi' = [monthsApi EXCEPT !.pending = Without(@, i)]
    /\ UNCHANGED beyondLoads

\* the buttons "Single Month" and "Full Year", lines 203 and 213, and the effect
setViewMode ==
  \E mode \in {"month", "year"} :
    /\ summaryPage.mounted /\ mode # summaryPage.viewMode
    /\ Len(monthsApi.pending) < MaxPending
    /\ LET next == loadEffect([summaryPage EXCEPT !.viewMode = mode], monthsApi.pending)
       IN  /\ summaryPage' = next.page
           /\ monthsApi' = [monthsApi EXCEPT !.pending = next.pending]
    /\ UNCHANGED beyondLoads

\* the select of the months, lines 225-237, and the effect
setSelectedMonthId ==
  \E id \in MonthIds :
    /\ summaryPage.mounted /\ summaryPage.viewMode = "month" /\ summaryPage.months
    /\ id # summaryPage.selectedMonthId
    /\ Len(monthsApi.pending) < MaxPending
    /\ LET next == loadEffect([summaryPage EXCEPT !.selectedMonthId = id], monthsApi.pending)
       IN  /\ summaryPage' = next.page
           /\ monthsApi' = [monthsApi EXCEPT !.pending = next.pending]
    /\ UNCHANGED beyondLoads

NextLoads ==
  \/ loadInitialDataResolves \/ loadMonthDataResolves \/ loadYearDataResolves
  \/ loadRejects \/ setViewMode \/ setSelectedMonthId

SpecLoads == InitLoads /\ [][NextLoads]_vars

(***************************************************************************)
(* UIPreferencesProvider and the localStorage entry "uiPreferences".  A    *)
(* field of the stored object is "true", "false", "null" or "missing".     *)
(***************************************************************************)
beyondPrefs == <<formatSideVars, cardVars, dashboardVars, summaryVars, settingsVars, loadsVars>>

\* the contents of the entry: absent, the empty text, a text JSON.parse throws
\* on, the JSON null, and objects with or without the two flags and other keys
StoredPreferences ==
  { Stored(kind, <<>>) : kind \in {"absent", "empty", "invalid", "null"} }
    \cup { Stored("json", prefs)
           : prefs \in [ transfersEnabled : {"true", "false", "null", "missing"},
                         retirementBreakdownEnabled : {"true", "false", "null", "missing"},
                         theme : {"dark", "light", "missing"},
                         sidebar : {"true", "false", "missing"} ] }

\* one initializer, lines 15-26 and 28-39: prefs.flag ?? fallback, and the
\* fallback when nothing is stored or the try block throws
initializer(entry, flag, fallback) ==
  IF entry.kind = "json" /\ entry.value[flag] \in {"true", "false"}
  THEN entry.value[flag] = "true"
  ELSE fallback

UIPreferencesProvider(entry) ==
  [ mounted |-> TRUE,
    transfersEnabled |-> initializer(entry, "transfersEnabled", TRUE),
    retirementBreakdownEnabled |-> initializer(entry, "retirementBreakdownEnabled", FALSE),
    thrown |-> "none" ]

\* stored ? JSON.parse(stored) : {} and the spread of lines 44-45 and 51-52;
\* spreading null gives no key
spread(entry) ==
  IF entry.kind = "json" THEN entry.value
  ELSE [transfersEnabled |-> "missing", retirementBreakdownEnabled |-> "missing",
        theme |-> "missing", sidebar |-> "missing"]

\* setTransfersEnabled, lines 41-46, and setRetirementBreakdownEnabled, 48-53:
\* the state is set first, and JSON.parse of line 44 or 51 is outside any try
setFlag(flag, enabled) ==
  IF uiPreferences.kind = "invalid"
  THEN /\ preferencesProvider' = [preferencesProvider EXCEPT ![flag] = enabled,
                                                             !.thrown = "SyntaxError"]
       /\ UNCHANGED uiPreferences
  ELSE /\ preferencesProvider' = [preferencesProvider EXCEPT ![flag] = enabled,
                                                             !.thrown = "none"]
       /\ uiPreferences' = Stored("json", [spread(uiPreferences) EXCEPT
                                             ![flag] = IF enabled THEN "true" ELSE "false"])

InitPrefs ==
  /\ FormatSideIdle
  /\ CardsIdle
  /\ DashboardIdle
  /\ SummaryIdle
  /\ SettingsIdle
  /\ LoadsIdle
  /\ uiPreferences \in StoredPreferences
  /\ preferencesProvider = UIPreferencesProvider(uiPreferences)

PrefsSetTransfersEnabled ==
  /\ preferencesProvider.mounted
  /\ \E enabled \in BOOLEAN : setFlag("transfersEnabled", enabled)
  /\ UNCHANGED beyondPrefs

PrefsSetRetirementBreakdownEnabled ==
  /\ preferencesProvider.mounted
  /\ \E enabled \in BOOLEAN : setFlag("retirementBreakdownEnabled", enabled)
  /\ UNCHANGED beyondPrefs

\* the page is loaded again: a fresh mount of the provider
PrefsRemount ==
  /\ preferencesProvider.mounted
  /\ preferencesProvider' = UIPreferencesProvider(uiPreferences)
  /\ UNCHANGED <<uiPreferences, beyondPrefs>>

NextPrefs == PrefsSetTransfersEnabled \/ PrefsSetRetirementBreakdownEnabled \/ PrefsRemount

SpecPrefs == InitPrefs /\ [][NextPrefs]_vars

(***************************************************************************)
(* Vocabulary of the properties.                                           *)
(***************************************************************************)
FormatCalled == formatted # NotCalled

SymbolCalled == symbolOf # NotCalled

\* the key the calls look up
Key == DefaultCurrency(currency)

Recognized == Key \in DOMAIN CURRENCY_SYMBOLS

\* a string that is no key of the tables
UnknownCode == currency.given /\ ~Recognized

\* the profile the specification gives a key: its table row, else ($, before, 2)
ProfileSymbol == IF Recognized THEN CURRENCY_SYMBOLS[Key] ELSE <<"$">>

ProfilePosition == IF Recognized THEN CURRENCY_POSITIONS[Key] ELSE BEFORE

ProfileDecimals == IF Recognized THEN DECIMAL_PLACES[Key] ELSE 2

StartsWith(s, p) == Len(p) <= Len(s) /\ SubSeq(s, 1, Len(p)) = p

EndsWith(s, p) == Len(p) <= Len(s) /\ SubSeq(s, Len(s) - Len(p) + 1, Len(s)) = p

\* the number of places where sub occurs in s
Occurrences(sub, s) ==
  Cardinality({i \in 1..(Len(s) - Len(sub) + 1) : SubSeq(s, i, i + Len(sub) - 1) = sub})

IsDigitChar(c) == \E d \in 0..9 : c = DigitChar(d)

\* the literal is a number below zero
StrictlyNegative(lit) ==
  /\ lit.neg
  /\ lit.kind = "inf" \/ (lit.kind = "finite" /\ Significand(lit.int, lit.frac) # <<0>>)

\* the literal is a number above zero
StrictlyPositive(lit) ==
  /\ ~lit.neg
  /\ lit.kind = "inf" \/ (lit.kind = "finite" /\ Significand(lit.int, lit.frac) # <<0>>)


(***************************************************************************)
(* C1.  Every string that is no key of the tables resolves to the fallback *)
(* profile: getCurrencySymbol returns "$", formatCurrency formats with "$" *)
(* in front and 2 decimals, and formatCurrency(3, code) = "$3.00".         *)
(* Stated as claimed; the code breaks it for the keys that object literals *)
(* inherit (constructor, toString, __proto__, ...).                        *)
(***************************************************************************)
C1_UnknownCodeUsesFallback ==
  UnknownCode =>
    /\ SymbolCalled => symbolOf = Str(<<"$">>)
    /\ (FormatCalled /\ IsFinite(amount)) =>
         /\ formatted.type = "string"
         /\ StartsWith(formatted.chars, isNegative(amount) \o <<"$">>)
    /\ (FormatCalled /\ literal = Three) =>
         formatted = Str(<<"$", "3", ".", "0", "0">>)

(***************************************************************************)
(* C2.  formatCurrency is total: called with a finite amount and a string  *)
(* code, it returns a string and throws nothing.                           *)
(***************************************************************************)
C2_ReturnsString ==
  (FormatCalled /\ IsFinite(amount) /\ currency.given) => formatted.type = "string"

\* reached: a call with a code that is no key of the tables returned a string
C2_Witness ==
  /\ FormatCalled /\ IsFinite(amount) /\ UnknownCode
  /\ Key = "ZZZ"
  /\ formatted.type = "string"

\* the key resolves to a table row or to the fallback, not to an inherited property
PlainKey == Key \notin InheritedKeys

\* the output without its leading "-"
Unsigned(out) == IF StartsWith(out, <<"-">>) THEN Tail(out) ELSE out

\* the numeral of an output laid out for the key's profile
NumeralOf(out) ==
  LET body == Unsigned(out)
  IN  IF ProfilePosition = BEFORE
      THEN SubSeq(body, Len(ProfileSymbol) + 1, Len(body))
      ELSE SubSeq(body, 1, Len(body) - Len(ProfileSymbol) - 1)

\* the numeral has exactly d digits after its one point; no point when d = 0
HasFractionDigits(n, d) ==
  IF d = 0 THEN Occurrences(<<".">>, n) = 0
  ELSE /\ Occurrences(<<".">>, n) = 1
       /\ Len(n) >= d + 2
       /\ n[Len(n) - d] = "."
       /\ \A i \in (Len(n) - d + 1)..Len(n) : IsDigitChar(n[i])

(***************************************************************************)
(* C3.  For every finite amount and every code, the numeral of the output  *)
(* has exactly `decimals` digits after the point, and no point when        *)
(* decimals is 0.  Stated as claimed; the code breaks it from 1e21 on,     *)
(* where toFixed answers in exponent notation.                             *)
(***************************************************************************)
C3_ExactlyDecimalsDigits ==
  (FormatCalled /\ IsFinite(amount) /\ PlainKey) =>
    /\ formatted.type = "string"
    /\ Occurrences(<<".">>, formatted.chars) = (IF ProfileDecimals = 0 THEN 0 ELSE 1)
    /\ HasFractionDigits(NumeralOf(formatted.chars), ProfileDecimals)

\* the literal lies exactly halfway between two numerals of d decimals
Halfway(lit, d) == lit.kind = "finite" /\ Len(lit.frac) = d + 1 /\ lit.frac[d + 1] = 5

\* the decimal numeral of the digits n with d decimals
DecimalNumeral(n, d) ==
  LET m == IF Len(n) <= d THEN Zeros(d + 1 - Len(n)) \o n ELSE n
  IN  IF d = 0 THEN DigitString(n)
      ELSE DigitString(SubSeq(m, 1, Len(m) - d)) \o <<".">>
             \o DigitString(SubSeq(m, Len(m) - d + 1, Len(m)))

\* a halfway literal rounded up in magnitude to d decimals
HalfAwayFromZero(lit, d) ==
  DecimalNumeral(StripLeadingZeros(Increment(lit.int \o SubSeq(lit.frac, 1, d))), d)

(***************************************************************************)
(* C4.  An amount written exactly halfway between two outputs is rounded   *)
(* up in magnitude: formatCurrency(1.005, "USD") = "$1.01" and             *)
(* formatCurrency(0.5, "JPY") = "¥1".  Stated as claimed; the code rounds  *)
(* the binary64 nearest to the literal, which for 1.005 lies below it.     *)
(***************************************************************************)
C4_HalfAwayFromZero ==
  (FormatCalled /\ PlainKey /\ Halfway(literal, ProfileDecimals)) =>
    /\ formatted.type = "string"
    /\ NumeralOf(formatted.chars) = HalfAwayFromZero(literal, ProfileDecimals)

(***************************************************************************)
(* C5.  For every finite amount and every code the output starts with      *)
(* exactly one "-" if and only if the amount is below zero, whatever it    *)
(* rounds to; the "-" comes before the symbol; the output for 0 holds no   *)
(* "-" at all.                                                             *)
(***************************************************************************)
C5_SignIffNegative ==
  (FormatCalled /\ IsFinite(amount) /\ currency.given) =>
    LET out == formatted.chars
    IN  /\ formatted.type = "string"
        /\ StrictlyNegative(literal) =>
             /\ StartsWith(out, <<"-">>)
             /\ ~StartsWith(out, <<"-", "-">>)
             /\ (PlainKey /\ ProfilePosition = BEFORE) =>
                  StartsWith(out, <<"-">> \o ProfileSymbol)
        /\ ~StrictlyNegative(literal) => ~StartsWith(out, <<"-">>)
        /\ IsZero(amount) => Occurrences(<<"-">>, out) = 0

\* reached: an amount below zero that rounds to zero keeps its sign
C5_Witness ==
  /\ FormatCalled /\ Key = "USD"
  /\ literal = Literal(TRUE, <<0>>, <<0, 0, 1>>)
  /\ formatted = Str(<<"-", "$", "0", ".", "0", "0">>)

\* the amount with its sign changed
Negated(x) == [x EXCEPT !.neg = ~x.neg]

(***************************************************************************)
(* C6.  For every code c and amount a > 0, formatCurrency(-a, c) is "-"    *)
(* followed by formatCurrency(a, c).                                       *)
(***************************************************************************)
C6_NegationAddsMinus ==
  (FormatCalled /\ StrictlyPositive(literal)) =>
    /\ formatted.type = "string"
    /\ formatCurrency(Negated(amount), currency) = Str(<<"-">> \o formatted.chars)

\* reached: a positive amount formatted for a currency with the symbol behind
C6_Witness ==
  /\ FormatCalled /\ Key = "EUR"
  /\ literal = Literal(FALSE, <<0>>, <<0, 0, 1>>)
  /\ formatted = Str(<<"0", ".", "0", "0", " ", "€">>)

\* the text the key's symbol is embedded as
SymbolText == ToString(symbol(Key))

(***************************************************************************)
(* C7.  A currency whose position is before is rendered sign, symbol,      *)
(* numeral with no space anywhere; one whose position is after (EUR, CHF)  *)
(* sign, numeral, one space, symbol; formatCurrency(5, "EUR") = "5.00 €";  *)
(* no other layout is produced.                                            *)
(***************************************************************************)
C7_Layout ==
  FormatCalled =>
    LET out    == formatted.chars
        sign   == IF StrictlyNegative(literal) THEN <<"-">> ELSE <<>>
        before == /\ StartsWith(out, sign \o SymbolText)
                  /\ Len(out) > Len(sign \o SymbolText)
        after  == /\ StartsWith(out, sign)
                  /\ EndsWith(out, <<" ">> \o SymbolText)
                  /\ Len(out) > Len(sign) + 1 + Len(SymbolText)
    IN  /\ formatted.type = "string"
        /\ (PlainKey /\ ProfilePosition = BEFORE) =>
             /\ before
             /\ StartsWith(out, sign \o ProfileSymbol)
             /\ Occurrences(<<" ">>, out) = 0
        /\ (PlainKey /\ ProfilePosition = AFTER) =>
             /\ after
             /\ EndsWith(out, <<" ">> \o ProfileSymbol)
             /\ Occurrences(<<" ">>, out) = 1
        /\ before \/ after
        /\ (literal = Literal(FALSE, <<5>>, <<>>) /\ Key = "EUR") =>
             out = <<"5", ".", "0", "0", " ", "€">>

\* reached: formatCurrency(5, "EUR") returned "5.00 €"
C7_Witness ==
  /\ FormatCalled /\ Key = "EUR"
  /\ literal = Literal(FALSE, <<5>>, <<>>)
  /\ formatted = Str(<<"5", ".", "0", "0", " ", "€">>)

(***************************************************************************)
(* C8.  For every recognized code c and every finite amount a, the output  *)
(* of formatCurrency(a, c) contains getCurrencySymbol(c) exactly once.     *)
(***************************************************************************)
C8_SymbolExactlyOnce ==
  (FormatCalled /\ SymbolCalled /\ Recognized /\ IsFinite(amount)) =>
    /\ formatted.type = "string"
    /\ symbolOf.type = "string"
    /\ Occurrences(symbolOf.chars, formatted.chars) = 1

\* reached: both functions were called for CHF, whose symbol has three letters
C8_Witness ==
  /\ FormatCalled /\ SymbolCalled /\ Key = "CHF" /\ IsFinite(amount)
  /\ symbolOf = Str(<<"C", "H", "F">>)
  /\ Occurrences(<<"C", "H", "F">>, formatted.chars) = 1

(***************************************************************************)
(* C9.  For every finite amount the numeral of the output consists only of *)
(* decimal digits and at most one ".", and                                 *)
(* formatCurrency(1234567.5, "USD") = "$1234567.50".  Stated as claimed;   *)
(* the code breaks it from 1e21 on ("$1e+21").                             *)
(***************************************************************************)
C9_DigitsAndOnePoint ==
  (FormatCalled /\ IsFinite(amount) /\ PlainKey) =>
    LET n == NumeralOf(formatted.chars)
    IN  /\ formatted.type = "string"
        /\ \A i \in 1..Len(n) : IsDigitChar(n[i]) \/ n[i] = "."
        /\ Occurrences(<<".">>, n) <= 1
        /\ (literal = Millions /\ Key = "USD") =>
             formatted.chars = <<"$", "1", "2", "3", "4", "5", "6", "7", ".", "5", "0">>

(***************************************************************************)
(* C10.  For every string c, getCurrencySymbol(c) returns exactly the      *)
(* symbol that formatCurrency(a, c) embeds in its output, whatever the     *)
(* amount.  Stated as claimed; for a key that object literals inherit the  *)
(* code returns a function or an object, and formatCurrency embeds its     *)
(* string conversion.                                                      *)
(***************************************************************************)
C10_SameSymbol ==
  (FormatCalled /\ SymbolCalled /\ currency.given) =>
    /\ formatted.type = "string"
    /\ symbolOf.type = "string"
    /\ \/ StartsWith(Unsigned(formatted.chars), symbolOf.chars)
       \/ EndsWith(formatted.chars, <<" ">> \o symbolOf.chars)

(***************************************************************************)
(* C11.  The three tables have the same keys, among them USD, EUR, GBP,    *)
(* JPY, CAD, AUD, CHF, CNY and INR; JPY is the only key with 0 decimal     *)
(* places and every other key has 2; so a key of the tables resolves to    *)
(* its own row in all three tables, never to a fallback value, and a call  *)
(* formats with that row.                                                  *)
(***************************************************************************)
NineCodes == {"USD", "EUR", "GBP", "JPY", "CAD", "AUD", "CHF", "CNY", "INR"}

C11_WholeProfiles ==
  /\ DOMAIN CURRENCY_SYMBOLS = DOMAIN CURRENCY_POSITIONS
  /\ DOMAIN CURRENCY_POSITIONS = DOMAIN DECIMAL_PLACES
  /\ NineCodes \subseteq DOMAIN CURRENCY_SYMBOLS
  /\ \A k \in DOMAIN DECIMAL_PLACES : DECIMAL_PLACES[k] = IF k = "JPY" THEN 0 ELSE 2
  /\ Recognized =>
       /\ symbol(Key) = Str(CURRENCY_SYMBOLS[Key])
       /\ position(Key) = Str(CURRENCY_POSITIONS[Key])
       /\ decimals(Key) = Num(DECIMAL_PLACES[Key])
  /\ (FormatCalled /\ Recognized /\ IsFinite(amount) /\ ~AtLeast1e21(amount)) =>
       /\ formatted.type = "string"
       /\ StartsWith(Unsigned(formatted.chars), CURRENCY_SYMBOLS[Key])
            \/ EndsWith(formatted.chars, <<" ">> \o CURRENCY_SYMBOLS[Key])
       /\ HasFractionDigits(NumeralOf(formatted.chars), DECIMAL_PLACES[Key])

\* reached: 10 yen are formatted with the row of JPY, without a fraction
C11_Witness ==
  /\ FormatCalled /\ Key = "JPY"
  /\ literal = Literal(FALSE, <<1, 0>>, <<>>)
  /\ formatted = Str(<<"¥", "1", "0">>)

(***************************************************************************)
(* C12.  No call of formatCurrency or getCurrencySymbol, by any caller in  *)
(* any order, changes the three tables; and what a call returned is what   *)
(* the same call returns at any later moment, whatever calls were made in  *)
(* between.                                                                *)
(***************************************************************************)
Repeatable(c) ==
  /\ callers[c].formatted # NotCalled =>
       callers[c].formatted = formatCurrency(Binary64(callers[c].literal), callers[c].currency)
  /\ callers[c].symbolOf # NotCalled =>
       callers[c].symbolOf = getCurrencySymbol(callers[c].currency)

C12_TablesReadOnly ==
  /\ [][tables' = tables]_vars
  /\ [](tables = ModuleTables /\ \A c \in Callers : Repeatable(c))

\* reached: two callers have called with the same unknown key and got the same
C12_Witness ==
  /\ callers[1].currency = Given("constructor")
  /\ callers[2] = callers[1]
  /\ callers[1].formatted.type = "string"
  /\ callers[1].symbolOf.type = "function"
  /\ tables = ModuleTables

(***************************************************************************)
(* C13.  Called with NaN, +Infinity or -Infinity and any currency code,    *)
(* formatCurrency throws nothing and returns a string; the string holds    *)
(* the words NaN or Infinity in the place of the numeral.                  *)
(***************************************************************************)
NaNText == <<"N", "a", "N">>

InfinityText == <<"I", "n", "f", "i", "n", "i", "t", "y">>

C13_NonFiniteReturnsString ==
  (FormatCalled /\ ~IsFinite(amount)) =>
    /\ formatted.type = "string"
    /\ Occurrences(IF amount.kind = "nan" THEN NaNText ELSE InfinityText, formatted.chars) = 1
    /\ StartsWith(formatted.chars, <<"-">>) <=> (amount.kind = "inf" /\ amount.neg)

\* reached: -Infinity dollars and NaN euros have been formatted
C13_Witness ==
  /\ FormatCalled
  /\ \/ amount = Infinity(TRUE) /\ Key = "USD"
           /\ formatted = Str(<<"-", "$">> \o InfinityText)
     \/ amount = NaN /\ Key = "EUR"
           /\ formatted = Str(NaNText \o <<" ", "€">>)

(***************************************************************************)
(* Reading a numeral back as a decimal number: digits, an optional point   *)
(* with more digits, an optional exponent e+NN.  The value is a pair of    *)
(* digit sequences, the integer part and the fraction.                     *)
(***************************************************************************)
CharDigit(c) == CHOOSE d \in 0..9 : DigitChar(d) = c

DigitsOf(cs) == [i \in 1..Len(cs) |-> CharDigit(cs[i])]

RECURSIVE DigitsValue(_)
DigitsValue(ds) ==
  IF ds = <<>> THEN 0 ELSE 10 * DigitsValue(SubSeq(ds, 1, Len(ds) - 1)) + ds[Len(ds)]

\* the first place of character c in cs, Len(cs) + 1 if there is none
IndexOf(c, cs) ==
  IF \E i \in 1..Len(cs) : cs[i] = c
  THEN CHOOSE i \in 1..Len(cs) : cs[i] = c /\ \A j \in 1..(i - 1) : cs[j] # c
  ELSE Len(cs) + 1

WellFormedNumeral(n) ==
  LET e    == IndexOf("e", n)
      mant == SubSeq(n, 1, e - 1)
      pt   == IndexOf(".", mant)
  IN  /\ pt > 1
      /\ \A i \in 1..Len(mant) : i # pt => IsDigitChar(mant[i])
      /\ pt <= Len(mant) => pt < Len(mant)
      /\ e <= Len(n) =>
           /\ Len(n) >= e + 2
           /\ n[e + 1] = "+"
           /\ \A i \in (e + 2)..Len(n) : IsDigitChar(n[i])

\* a fraction without the zeros at its end
RECURSIVE NoTrailingZeros(_)
NoTrailingZeros(ds) ==
  IF ds # <<>> /\ ds[Len(ds)] = 0 THEN NoTrailingZeros(SubSeq(ds, 1, Len(ds) - 1)) ELSE ds

ReadDecimal(n) ==
  LET e     == IndexOf("e", n)
      mant  == SubSeq(n, 1, e - 1)
      pt    == IndexOf(".", mant)
      int   == DigitsOf(SubSeq(mant, 1, pt - 1))
      frac  == DigitsOf(SubSeq(mant, pt + 1, Len(mant)))
      exp   == IF e <= Len(n) THEN DigitsValue(DigitsOf(SubSeq(n, e + 2, Len(n)))) ELSE 0
      tail  == frac \o Zeros(exp)
  IN  [ int  |-> StripLeadingZeros(int \o SubSeq(tail, 1, exp)),
        frac |-> NoTrailingZeros(SubSeq(tail, exp + 1, Len(tail))) ]

\* a < b for digit sequences of the same length
LexLess(a, b) ==
  \E i \in 1..Len(a) : a[i] < b[i] /\ \A j \in 1..(i - 1) : a[j] = b[j]

\* a < b for two decimals [int, frac] without leading zeros in int
DecimalLess(a, b) ==
  LET w == IF Len(a.frac) > Len(b.frac) THEN Len(a.frac) ELSE Len(b.frac)
  IN  \/ Len(a.int) < Len(b.int)
      \/ /\ Len(a.int) = Len(b.int)
         /\ LexLess(a.int \o a.frac \o Zeros(w - Len(a.frac)),
                    b.int \o b.frac \o Zeros(w - Len(b.frac)))

\* ds - 1 on the digits of a positive integer
RECURSIVE Decrement(_)
Decrement(ds) ==
  IF ds[Len(ds)] > 0 THEN [ds EXCEPT ![Len(ds)] = @ - 1]
  ELSE Append(Decrement(SubSeq(ds, 1, Len(ds) - 1)), 9)

\* the decimal n + 1/2 in units of 10^-d, n given by its digits
PlusHalf(n, d) ==
  LET m == Zeros(d + 1) \o n
  IN  [ int  |-> StripLeadingZeros(SubSeq(m, 1, Len(m) - d)),
        frac |-> SubSeq(m, Len(m) - d + 1, Len(m)) \o <<5>> ]

\* v is the magnitude of x rounded to d decimals: v is a multiple of 10^-d and
\* v - 10^-d / 2 <= |x| < v + 10^-d / 2
IsRounding(v, x, d) ==
  LET n    == StripLeadingZeros(v.int \o v.frac \o Zeros(d - Len(v.frac)))
      magn == [int |-> x.int, frac |-> x.frac]
  IN  /\ Len(v.frac) <= d
      /\ DecimalLess(magn, PlusHalf(n, d))
      /\ n # <<0>> => ~DecimalLess(magn, PlusHalf(StripLeadingZeros(Decrement(n)), d))

LocaleCalled == localeFormatted # NotCalled

\* the text has one point and exactly two digits right after it
TwoDigitsAfterPoint(cs) ==
  LET i == IndexOf(".", cs)
  IN  /\ Occurrences(<<".">>, cs) = 1
      /\ Len(cs) >= i + 2
      /\ IsDigitChar(cs[i + 1]) /\ IsDigitChar(cs[i + 2])
      /\ Len(cs) > i + 2 => ~IsDigitChar(cs[i + 3])

C15_VariantsDiffer ==
  (FormatCalled /\ LocaleCalled /\ IsFinite(amount) /\ Key = "JPY") =>
    /\ formatted.type = "string"
    /\ localeFormatted.type = "string"
    /\ formatted # localeFormatted
    /\ TwoDigitsAfterPoint(localeFormatted.chars)
    /\ ~AtLeast1e21(amount) => Occurrences(<<".">>, formatted.chars) = 0

\* reached: 10 yen are "¥10" from the tables and "¥10.00" from the locale-aware formatter
C15_Witness ==
  /\ Key = "JPY"
  /\ literal = Eighth(FALSE, 80)
  /\ formatted = Str(<<"¥", "1", "0">>)
  /\ localeFormatted = Str(<<"¥", "1", "0", ".", "0", "0">>)

(***************************************************************************)
(* C16.  For every currency code the registration form offers, and for an  *)
(* absent user or an undefined or empty user.currency, useCurrency()       *)
(* .format(amount) returns a string and throws nothing.  Stated as         *)
(* claimed; the code breaks it for every offered code that has no record   *)
(* in SUPPORTED_CURRENCIES.                                                *)
(***************************************************************************)
HookCalled == hookFormatted # NotCalled

C16_HookReturnsString ==
  (HookCalled /\ (user.present /\ user.currency.given => user.currency.key \in RegistrationCodes \cup {""})) =>
    hookFormatted.type = "string"

(***************************************************************************)
(* C17.  Every number an edit handler commits to state or sends to the     *)
(* server is finite (SavingsCard.saveEdit, CustomSavingsGoals.addNewGoal   *)
(* and saveEditAmount, RetirementBreakdownCard.handleAdd and               *)
(* handleUpdate): a text that parses to NaN or to an infinite value        *)
(* commits nothing.  Stated as claimed; the handlers test isNaN at most,   *)
(* so a text such as 1e999 is committed as Infinity.                       *)
(***************************************************************************)
FiniteOrNull(x) == x.kind \in {"finite", "null"}

C17_CommittedFinite ==
  /\ goalsCard.mounted =>
       \A i \in 1..Len(goalsCard.goals) :
         /\ FiniteOrNull(goalsCard.goals[i].currentAmount)
         /\ FiniteOrNull(goalsCard.goals[i].targetAmount)
  /\ savingsCard.mounted =>
       /\ savingsCard.savings.kind = "finite"
       /\ savingsCard.request.kind \in {"none", "finite"}
  /\ retirementCard.mounted =>
       \A i \in 1..Len(retirementCard.breakdownItems) :
         FiniteOrNull(retirementCard.breakdownItems[i].amount)

(***************************************************************************)
(* C20.  After any sequence of addNewGoal, saveEditAmount and deleteGoal,  *)
(* accepted or rejected, the localStorage entry customSavingsGoals is the  *)
(* JSON of the current goals, and a remount restores exactly the same      *)
(* list.  Stated as claimed; the entry is always the JSON of the list, but *)
(* the JSON of a goal with an infinite amount (see C17) holds null, and    *)
(* the remount restores null.                                              *)
(***************************************************************************)
C20_RemountRestores ==
  goalsCard.mounted =>
    /\ localStorage.customSavingsGoals = GoalsJson(goalsCard.goals)
    /\ Loaded(localStorage.customSavingsGoals) = goalsCard.goals

DashboardShown == app.user /\ ~app.showSettings /\ ~app.showSummary

TransferRemains ==
  \E i \in 1..Len(summary.items) : summary.items[i].savings_destination \in TransferDestinations

\* C18: while the transfersEnabled preference is false, a TransfersCard on the
\* screen has neither its add form nor an edit row open and is there only
\* because the month still has an item whose savings_destination is "savings"
\* or "retirement_savings", and no step calls api.items.create, api.items.update
\* or api.items.delete.
C18_ViewOnlyWhileDisabled ==
  /\ []((~transfersEnabled /\ transfersCard.mounted)
          => (/\ ~transfersCard.isAdding
              /\ transfersCard.editingId = 0
              /\ TransferRemains))
  /\ [][apiItems'.calls # apiItems.calls => transfersEnabled]_vars

\* a card shown view only, after a transfer was deleted while the preference was on
C18_Witness ==
  /\ ~transfersEnabled
  /\ DashboardShown
  /\ transfersCard.mounted
  /\ apiItems.last = "delete"

\* the items of the loaded month that count as spending
Spending == SelectSeq(monthSummary.items, LAMBDA i : i.savings_destination = "none")

SpendingLabels == { Spending[i].category_label : i \in 1..Len(Spending) }

RECURSIVE SumOf(_, _)
SumOf(items, label) ==
  IF items = <<>> THEN 0
  ELSE (IF Head(items).category_label = label THEN Head(items).amount ELSE 0)
         + SumOf(Tail(items), label)

\* C19: the rendered spendingByCategory has exactly one entry per distinct
\* category_label among the items whose savings_destination is "none", the
\* amount of an entry is the sum of the amounts of those items with its label,
\* and the entries are in descending order of amount.
C19_GroupingCorrect ==
  spendingChart.rendered =>
    LET data == spendingChart.data
    IN  /\ { data[i].category : i \in 1..Len(data) } = SpendingLabels
        /\ Len(data) = Cardinality(SpendingLabels)
        /\ \A i \in 1..Len(data) : data[i].amount = SumOf(Spending, data[i].category)
        /\ \A i, j \in 1..Len(data) : i < j => data[i].amount >= data[j].amount

\* a rendered chart of two categories, one of them summed from two items and put
\* first although its items come last, beside an item that is a transfer
C19_Witness ==
  /\ spendingChart.rendered
  /\ Len(spendingChart.data) = 2
  /\ Len(Spending) = Len(monthSummary.items) - 1
  /\ spendingChart.data[1].category = monthSummary.items[Len(monthSummary.items)].category_label
  /\ spendingChart.data[1].category # Spending[1].category_label
  /\ spendingChart.data[1].amount > spendingChart.data[2].amount

\* the new password has 6 to 128 code units and equals the confirmation
PasswordAccepted ==
  /\ Len(settingsPage.newPassword) >= 6
  /\ Len(settingsPage.newPassword) <= 128
  /\ settingsPage.newPassword = settingsPage.confirmPassword

RequestSent == authRequest' # authRequest /\ authRequest'.state = "pending"

\* C21: a step sends the api.auth.changePassword request only when the new
\* password has 6 to 128 characters and equals the confirmation; a run of
\* handleChangePassword on any other input sets passwordError to "Password must
\* be 6-128 characters" or to "Passwords do not match", sends no request, and
\* leaves passwordLoading false and the three password fields as they were.
C21_RequestOnlyWhenValid ==
  /\ [][RequestSent => PasswordAccepted]_vars
  /\ [][(handleChangePassword /\ ~PasswordAccepted)
          => (/\ settingsPage'.passwordError =
                   (IF Len(settingsPage.newPassword) < 6 \/ Len(settingsPage.newPassword) > 128
                    THEN "Password must be 6-128 characters"
                    ELSE "Passwords do not match")
              /\ authRequest' = authRequest
              /\ ~settingsPage'.passwordLoading
              /\ settingsPage'.currentPassword = settingsPage.currentPassword
              /\ settingsPage'.newPassword = settingsPage.newPassword
              /\ settingsPage'.confirmPassword = settingsPage.confirmPassword)]_vars

\* after one password change went through, a submit whose confirmation differs
\* was turned down
C21_Witness ==
  /\ authRequest.state = "resolved"
  /\ settingsPage.passwordError = "Passwords do not match"
  /\ Len(settingsPage.newPassword) = 6
  /\ ~settingsPage.passwordLoading

(***************************************************************************)
(* C22.  Every item that handleAdd creates gets an id different from the   *)
(* id of every item already in breakdownItems, so no two items of the list *)
(* share an id and handleDelete(id) and handleUpdate(id) touch exactly one *)
(* item.  Stated as claimed; idCounter starts at 0 in every render, so the *)
(* second item of a card gets the id of the first.                         *)
(***************************************************************************)
C22_IdsDistinct ==
  /\ [](retirementCard.mounted =>
          \A i, j \in 1..Len(retirementCard.breakdownItems) :
            i # j => retirementCard.breakdownItems[i].id # retirementCard.breakdownItems[j].id)
  /\ [][(retirementCard.mounted /\ retirementCard'.mounted
           /\ Len(retirementCard'.breakdownItems) < Len(retirementCard.breakdownItems))
          => Len(retirementCard'.breakdownItems) = Len(retirementCard.breakdownItems) - 1]_vars

NoRequestPending == monthsApi.pending = <<>>

(***************************************************************************)
(* C23.  In month view, once no request is in flight and none has failed,  *)
(* the displayed monthSummary is the summary of the selected month.        *)
(* Stated as claimed; a response that arrives late overwrites the summary  *)
(* of a later request, and with an initialMonthId the current month of     *)
(* loadInitialData can overwrite the month that was asked for.             *)
(***************************************************************************)
C23_ShowsSelectedMonth ==
  (/\ summaryPage.mounted
   /\ summaryPage.viewMode = "month"
   /\ NoRequestPending
   /\ ~summaryPage.failed)
    => summaryPage.monthSummary = summaryPage.selectedMonthId

(***************************************************************************)
(* C24.  The loading flag is true whenever a request of loadInitialData,   *)
(* loadMonthData or loadYearData is awaiting its response.  Stated as      *)
(* claimed; the flag is one boolean for all requests, and the finally of   *)
(* the first one to finish clears it while another is pending.             *)
(***************************************************************************)
C24_LoadingWhilePending ==
  (summaryPage.mounted /\ ~NoRequestPending) => summaryPage.loading

(***************************************************************************)
(* C25.  After any sequence of setTransfersEnabled and                     *)
(* setRetirementBreakdownEnabled calls, from any content of the entry      *)
(* "uiPreferences" the initializers accept, a fresh mount of the provider  *)
(* reads back the two values of the in-memory state.  Stated as claimed;   *)
(* on an unparsable entry the initializers fall back to the defaults, but  *)
(* the setters throw in JSON.parse after they have set the state, and      *)
(* store nothing.                                                          *)
(***************************************************************************)
C25_StoredMirrorsMemory ==
  preferencesProvider.mounted =>
    LET fresh == UIPreferencesProvider(uiPreferences)
    IN  /\ fresh.transfersEnabled = preferencesProvider.transfersEnabled
        /\ fresh.retirementBreakdownEnabled = preferencesProvider.retirementBreakdownEnabled

(***************************************************************************)
(* C26.  In TransfersCard the add form and the edit form of a row are      *)
(* never open together: in no state is isAdding true while editingId is    *)
(* not null.  Stated as claimed; the + button does not look at editingId   *)
(* and the pencil of a row does not look at isAdding, and ItemsSection is  *)
(* written the same way.                                                   *)
(***************************************************************************)
C26_OneFormAtATime ==
  transfersCard.mounted => ~(transfersCard.isAdding /\ transfersCard.editingId # 0)

\* C27: in App showSettings and showSummary are never both true, whatever the
\* pages' callbacks, logouts and logins did, so the Back action of Settings and
\* of the Summary page leads to the Dashboard.
C27_OnePageAtATime ==
  /\ [](~(app.showSettings /\ app.showSummary))
  /\ [][onBack => (app'.user /\ ~app'.showSettings /\ ~app'.showSummary)]_vars

\* Settings is shown again after a logout and a login that happened on it,
\* and requests were made before
C27_Witness ==
  /\ app.user /\ app.showSettings /\ ~app.showSummary
  /\ apiItems.last = "create"
  /\ ~transfersEnabled

====
